---- MODULE Spec2Model ----
(***************************************************************************)
(* A model of the task scheduler (api/db/services/task_service.py) and of  *)
(* the broker client and distributed lock (rag/utils/redis_conn.py).       *)
(*                                                                         *)
(* Conventions                                                             *)
(*  - progress is kept in hundredths: 0 is 0.0, 100 is 1.0, -100 is -1.    *)
(*  - chunk_ids, a space separated string, is the sequence str.split()     *)
(*    gives; the empty string is <<>>.                                     *)
(*  - progress_msg, a text, is the sequence of the lengths of its lines    *)
(*    (the text is the lines joined by "\n"); the empty text is <<0>>.     *)
(*  - a dict is a function; a key the dict does not hold is not in its     *)
(*    DOMAIN.                                                              *)
(*  - the xxh64 digest is the sequence of the values fed to the hasher:    *)
(*    the hash and the concatenation of the fields are taken to be         *)
(*    collision free.                                                      *)
(***************************************************************************)
EXTENDS Integers, Sequences, FiniteSets, TLC

VARIABLES
    tasks,      \* the Task table's rows of the document, in insertion order
    nextId,     \* the next id get_uuid() hands out
    document,   \* the Document row: [chunk_num, run]
    streams,    \* broker streams: queue name -> sequence of messages
    docStore,   \* the last delete request sent to the index store (a set of ids)
    qt,         \* the latest queue_tasks call: where it stands, its locals,
                \* and what it found when it started
    prevRun,    \* the doc argument of the last queue_tasks call that persisted
    runs,       \* queue_tasks calls made so far
    ret,        \* what the last TaskService call returned
    kv,         \* the broker's value under the one key of the model; None: no key
    last,       \* the last call on the broker client or the lock, and its result
    lk,         \* per process: where its RedisDistributedLock call stands
    held,       \* per process: whether it holds the lock
    slot,       \* the _get_key_slot call: its key, its loop, its result
    wk,         \* per worker: where its get_task or update_progress call stands
    dblock,     \* the holder of DB.lock("update_progress"); None: free
    log,        \* for the record: the calls the workers completed
    cl,         \* the broker client in cluster mode: its slot cache, its call
    sg,         \* per stream: its entries, its consumer group, the pending list
    rq,         \* the requeue_msg call under way
    it          \* the get_unacked_iterator under way

schedVars == <<tasks, nextId, document, streams, docStore, qt, prevRun, runs, ret>>

brokerVars == <<kv, last, lk, held>>

slotVars == <<slot>>

workerVars == <<wk, dblock, log>>

clusterVars == <<cl>>

streamVars == <<sg, rq, it>>

vars == <<tasks, nextId, document, streams, docStore, qt, prevRun, runs, ret,
          kv, last, lk, held, slot, wk, dblock, log, cl, sg, rq, it>>

-----------------------------------------------------------------------------
(* Bounds of the model *)

MaxRuns == 2
SchedFetch == 1
MaxPlanPages == 5
MaxKeyLen == 2
MaxFetch == 5
MaxWork == 4
MaxReports == 3
MaxLines == 3
MaxEntries == 2

(* Program constants *)

DefaultPageSize == 12
PaperPageSize == 22
NoSplitPageSize == 1000000000
DefaultPageRangeEnd == 100000
DefaultToPage == 100000000
RowsPerTask == 3000
RetryLimit == 3
ProgressDone == 100
ProgressFailed == -100
MsgMaxLen == 3000
WholeDocSpan == 1000000
ReceivedLineLen == 32
AbandonedLineLen == 48
ReusedLineLen == 40
ReusedWholeLineLen == 59
LongFileSize == 52428800
MediumFileSize == 10485760
Polynomial == 4129
TopBit == 32768
Modulus == 65536
SlotCount == 16384
max_retries == 3
ProductTries == 3

DocId == "doc"
PDF == "pdf"
None == "None"

Min(a, b) == IF a < b THEN a ELSE b
Max(a, b) == IF a > b THEN a ELSE b

RECURSIVE SumSeq(_)
SumSeq(s) == IF s = <<>> THEN 0 ELSE Head(s) + SumSeq(Tail(s))

RECURSIVE Flatten(_)
Flatten(ss) == IF ss = <<>> THEN <<>> ELSE Head(ss) \o Flatten(Tail(ss))

-----------------------------------------------------------------------------
(* Text as line lengths *)

TextLen(text) == SumSeq(text) + Len(text) - 1

\* text + "\n" + line
AppendLine(text, n) == Append(text, n)

\* trim_header_by_lines returning text[i:], the line break included: the text
\* it keeps opens with an empty line
TrimHeaderByLines_KeepsNewline(text, max_length) ==
    LET len_text == TextLen(text)
        NewlineAt(k) == SumSeq(SubSeq(text, 1, k)) + k - 1
        cuts == {k \in 1..(Len(text) - 1) : len_text - NewlineAt(k) <= max_length}
    IN  IF len_text <= max_length THEN text
        ELSE IF cuts = {} THEN text
        ELSE LET k == CHOOSE c \in cuts : \A c2 \in cuts : c <= c2
             IN  <<0>> \o SubSeq(text, k + 1, Len(text))

\* trim_header_by_lines: the newline that ends line k of the text sits at
\* index i = (length of lines 1..k) + k - 1; the text after it is lines k+1..
TrimHeaderByLines(text, max_length) ==
    LET len_text == TextLen(text)
        NewlineAt(k) == SumSeq(SubSeq(text, 1, k)) + k - 1
        cuts == {k \in 1..(Len(text) - 1) : len_text - NewlineAt(k) <= max_length}
    IN  IF len_text <= max_length THEN text
        ELSE IF cuts = {} THEN text
        ELSE LET k == CHOOSE c \in cuts : \A c2 \in cuts : c <= c2
             IN  SubSeq(text, k + 1, Len(text))

-----------------------------------------------------------------------------
(* queue_tasks: unit generation *)

Get(dict, key, default) == IF key \in DOMAIN dict THEN dict[key] ELSE default

NoMeta == [estimated_time |-> "medium", service_available |-> TRUE]

\* new_task(); meta holds what task.get("estimated_time", "medium") and
\* task.get("service_available", True) give for the task
new_task ==
    [from_page |-> 0, to_page |-> DefaultToPage, progress |-> 0, meta |-> NoMeta]

\* range(s, e, step), step >= 1
RangeSeq(s, e, step) ==
    IF s >= e THEN <<>>
    ELSE [k \in 1..(((e - s - 1) \div step) + 1) |-> s + (k - 1) * step]

PageSize(doc) ==
    LET do_layout == Get(doc.parser_config, "layout_recognize", "DeepDOC")
        page_size == IF doc.parser_id = "paper"
                     THEN Get(doc.parser_config, "task_page_size", PaperPageSize)
                     ELSE Get(doc.parser_config, "task_page_size", DefaultPageSize)
    IN  IF doc.parser_id \in {"one", "knowledge_graph"} \/ do_layout # "DeepDOC"
        THEN NoSplitPageSize
        ELSE page_size

PageRanges(doc) ==
    LET given == Get(doc.parser_config, "pages", <<>>)
    IN  IF given # <<>> THEN given ELSE << <<1, DefaultPageRangeEnd>> >>

\* the tasks of one (s, e) of page_ranges
RangeTasks(se, pages, page_size) ==
    LET s == Max(0, se[1] - 1)
        e == Min(se[2] - 1, pages)
        starts == RangeSeq(s, e, page_size)
    IN  [k \in 1..Len(starts) |->
            [new_task EXCEPT !.from_page = starts[k],
                             !.to_page = Min(starts[k] + page_size, e)]]

PdfTasks(doc) ==
    LET ranges == PageRanges(doc)
    IN  Flatten([r \in 1..Len(ranges) |->
                    RangeTasks(ranges[r], doc.pages, PageSize(doc))])

TableTasks(doc) ==
    LET starts == RangeSeq(0, doc.rows, RowsPerTask)
    IN  [k \in 1..Len(starts) |->
            [new_task EXCEPT !.from_page = starts[k],
                             !.to_page = Min(starts[k] + RowsPerTask, doc.rows)]]

\* the metadata the "mineru" branch puts on its task (no column of Task)
MineruMeta(doc) ==
    [estimated_time |-> IF doc.size > LongFileSize THEN "long"
                        ELSE IF doc.size > MediumFileSize THEN "medium"
                        ELSE "short",
     service_available |-> doc.mineru_available]

\* the "mineru" branch raises unless the document is a PDF, the service is
\* available or the fallback is enabled, and the page count is positive
MineruRaises(doc) ==
    \/ doc.type # PDF
    \/ ~doc.mineru_available /\ ~Get(doc.parser_config, "mineru_fallback", TRUE)
    \/ doc.pages <= 0

\* the single task of the "mineru" branch
MineruTasks(doc) ==
    << [new_task EXCEPT !.from_page = 0, !.to_page = doc.pages,
                        !.meta = MineruMeta(doc)] >>

\* queue_tasks raises before anything is planned
PlanRaises(doc) ==
    doc.type # PDF /\ doc.parser_id # "table" /\ doc.parser_id = "mineru"
        /\ MineruRaises(doc)

parse_task_array(doc) ==
    IF doc.type = PDF THEN PdfTasks(doc)
    ELSE IF doc.parser_id = "table" THEN TableTasks(doc)
    ELSE IF doc.parser_id = "mineru" THEN MineruTasks(doc)
    ELSE << new_task >>

-----------------------------------------------------------------------------
(* queue_tasks: digest *)

\* DocumentService.get_chunking_config(doc["id"]): the document's row joined
\* with its knowledge base
\* with its knowledge base. A dict is its items in insertion order, as
\* str() writes them
ChunkingConfig(doc) ==
    [embd_id |-> doc.embd_id, id |-> DocId,
     parser_config |-> [i \in 1..Len(doc.key_order) |->
                           <<doc.key_order[i], doc.parser_config[doc.key_order[i]]>>],
     parser_id |-> doc.parser_id]

\* sorted(chunking_config.keys())
SortedKeys == <<"embd_id", "id", "parser_config", "parser_id">>

Undigested == {"raptor", "graphrag"}

\* the parser_config goes into the digest with its raptor and graphrag items
DigestField_KeepsAll(chunking_config, field) == chunking_config[field]

\* C2 mutant: the parser_config is left out of the digest
DigestField_NoParserConfig(chunking_config, field) ==
    IF field = "parser_config" THEN <<>> ELSE chunking_config[field]

\* what the hasher is fed for one field of the configuration
DigestField(chunking_config, field) ==
    IF field = "parser_config"
    THEN LET Kept(item) == item[1] \notin Undigested
         IN  SelectSeq(chunking_config[field], Kept)
    ELSE chunking_config[field]

TaskDigest(chunking_config, task) ==
    [config |-> [i \in 1..Len(SortedKeys) |->
                    DigestField(chunking_config, SortedKeys[i])],
     unit |-> <<DocId, task.from_page, task.to_page>>]

Digested(doc, priority) ==
    LET planned == parse_task_array(doc)
    IN  [k \in 1..Len(planned) |->
            [id |-> 0,
             from_page |-> planned[k].from_page,
             to_page |-> planned[k].to_page,
             digest |-> TaskDigest(ChunkingConfig(doc), planned[k]),
             progress |-> 0,
             priority |-> priority,
             progress_msg |-> <<0>>,
             retry_count |-> 0,
             chunk_ids |-> <<>>,
             meta |-> planned[k].meta]]

-----------------------------------------------------------------------------
(* queue_tasks: reuse of the previous run's chunks *)

\* the orders of the rows of `left` (indices into rows) by from_page
\* ascending, rows with the same from_page in any order
RECURSIVE OrdersByFrom(_, _)
OrdersByFrom(rows, left) ==
    IF left = {} THEN {<<>>}
    ELSE LET first == {i \in left : \A j \in left :
                          rows[i].from_page <= rows[j].from_page}
         IN  UNION {{<<rows[i]>> \o rest : rest \in OrdersByFrom(rows, left \ {i})} :
                       i \in first}

\* TaskService.get_tasks: the rows ordered by from_page asc, create_time desc.
\* The rows of one bulk insert share their create_time, so rows with the same
\* from_page come in either order.
GetTasksOrders(rows) == OrdersByFrom(rows, 1..Len(rows))

\* C19 mutant: the loop stops at the last previous task that matches
MatchIdx_Last(task, prev_tasks) ==
    LET hits == {i \in 1..Len(prev_tasks) :
                    /\ prev_tasks[i].from_page = task.from_page
                    /\ prev_tasks[i].digest = task.digest}
    IN  IF hits = {} THEN Len(prev_tasks) + 1
        ELSE CHOOSE i \in hits : \A j \in hits : i >= j

\* the index the while loop of reuse_prev_task_chunks stops at; beyond the
\* list when nothing matches
MatchIdx(task, prev_tasks) ==
    LET hits == {i \in 1..Len(prev_tasks) :
                    /\ prev_tasks[i].from_page = task.from_page
                    /\ prev_tasks[i].digest = task.digest}
    IN  IF hits = {} THEN Len(prev_tasks) + 1
        ELSE CHOOSE i \in hits : \A j \in hits : i <= j

\* C10 mutant: reuse looks at the progress alone
Reusable_ProgressAlone(prev_task) == ~(prev_task.progress < ProgressDone)

\* C1 mutant: reuse refuses a finished task
Reusable_NotWhenDone(prev_task) ==
    ~(prev_task.progress <= ProgressDone \/ prev_task.chunk_ids = <<>>)

\* whether the matched previous task may be reused
Reusable(prev_task) ==
    ~(prev_task.progress < ProgressDone \/ prev_task.chunk_ids = <<>>)

ReusedMsg(task) ==
    IF task.to_page - task.from_page >= WholeDocSpan
    THEN <<ReusedWholeLineLen>>
    ELSE <<ReusedLineLen>>

\* C17 mutant: a reused task counts as one chunk
reuse_prev_task_chunks_CountsTasks(task, prev_tasks) ==
    LET idx == MatchIdx(task, prev_tasks)
    IN  IF idx > Len(prev_tasks) \/ ~Reusable(prev_tasks[Min(idx, Len(prev_tasks))])
        THEN [task |-> task, prev_tasks |-> prev_tasks, n |-> 0]
        ELSE [task |-> [task EXCEPT !.chunk_ids = prev_tasks[idx].chunk_ids,
                                    !.progress = ProgressDone,
                                    !.progress_msg = ReusedMsg(task)],
              prev_tasks |-> [prev_tasks EXCEPT ![idx].chunk_ids = <<>>],
              n |-> 1]

\* reuse_prev_task_chunks: the task and the previous tasks as it leaves them,
\* and the number it returns
reuse_prev_task_chunks(task, prev_tasks) ==
    LET idx == MatchIdx(task, prev_tasks)
    IN  IF idx > Len(prev_tasks)
        THEN [task |-> task, prev_tasks |-> prev_tasks, n |-> 0]
        ELSE IF ~Reusable(prev_tasks[idx])
        THEN [task |-> task, prev_tasks |-> prev_tasks, n |-> 0]
        ELSE [task |-> [task EXCEPT !.chunk_ids = prev_tasks[idx].chunk_ids,
                                    !.progress = ProgressDone,
                                    !.progress_msg = ReusedMsg(task)],
              prev_tasks |-> [prev_tasks EXCEPT ![idx].chunk_ids = <<>>],
              n |-> Len(prev_tasks[idx].chunk_ids)]

\* the loop over parse_task_array: the tasks, the previous tasks and ck_num
RECURSIVE ReuseAll(_, _)
ReuseAll(new_tasks, prev_tasks) ==
    IF new_tasks = <<>>
    THEN [tasks |-> <<>>, prev_tasks |-> prev_tasks, ck_num |-> 0]
    ELSE LET one == reuse_prev_task_chunks(Head(new_tasks), prev_tasks)
             rest == ReuseAll(Tail(new_tasks), one.prev_tasks)
         IN  [tasks |-> <<one.task>> \o rest.tasks,
              prev_tasks |-> rest.prev_tasks,
              ck_num |-> one.n + rest.ck_num]

\* the ids left on the previous tasks, which the index store is asked to delete
LeftoverChunkIds(prev_tasks) ==
    Flatten([i \in 1..Len(prev_tasks) |-> prev_tasks[i].chunk_ids])

SeqToSet(s) == {s[i] : i \in 1..Len(s)}

\* C9 mutant: the finished units are dispatched too
Unfinished_AndDone(task_array) ==
    LET IsUnfinished(t) == t.progress <= ProgressDone
    IN  SelectSeq(task_array, IsUnfinished)

\* unfinished_task_array
Unfinished(task_array) ==
    LET IsUnfinished(t) == t.progress < ProgressDone
    IN  SelectSeq(task_array, IsUnfinished)

-----------------------------------------------------------------------------
(* queue_tasks: dispatch *)

\* the priority a unit is published with
TaskPriority(parser_id, unfinished_task, priority) ==
    LET p1 == IF parser_id = "mineru"
              THEN IF unfinished_task.meta.estimated_time = "short"
                   THEN Max(0, priority - 1)
                   ELSE IF unfinished_task.meta.estimated_time = "long"
                   THEN priority + 1
                   ELSE priority
              ELSE priority
    IN  IF parser_id = "mineru" /\ ~unfinished_task.meta.service_available
        THEN priority + 1
        ELSE p1

\* rag.settings.get_svr_queue_name: one stream per priority
get_svr_queue_name(priority) == <<"rag_flow_svr_queue", priority>>

\* the message of a unit: the task dict, serialized
Message(task) ==
    [id |-> task.id, from_page |-> task.from_page, to_page |-> task.to_page,
     priority |-> task.priority]

-----------------------------------------------------------------------------
(* The documents and calls the model draws from *)

\* the order in which a parser_config holds its keys, as first saved
ConfigKeys ==
    <<"chunk_token_num", "task_page_size", "layout_recognize", "pages",
      "mineru_fallback", "raptor", "graphrag">>

Doc(type, parser_id, pages, rows, embd_id, parser_config) ==
    [type |-> type, parser_id |-> parser_id, pages |-> pages, rows |-> rows,
     size |-> 0, mineru_available |-> TRUE, embd_id |-> embd_id,
     parser_config |-> parser_config,
     key_order |-> LET Held(k) == k \in DOMAIN parser_config
                   IN  SelectSeq(ConfigKeys, Held)]

\* the document after its parser_config was saved again with the same
\* entries, the keys in the opposite order
Resaved(doc) ==
    [doc EXCEPT !.key_order = [i \in 1..Len(@) |-> @[Len(@) + 1 - i]]]

BaseConfig == "chunk_token_num" :> 128

\* a PDF handled by the general parser
Pdf(pages, parser_config) == Doc(PDF, "naive", pages, 0, "e1", parser_config)

PageSizeKey(s) == "task_page_size" :> s

\* the queue_tasks calls of the scheduler's specification: <<doc, priority>>
SchedCalls ==
    {<<Pdf(2, BaseConfig @@ PageSizeKey(1)), 0>>,
     <<Pdf(2, BaseConfig @@ PageSizeKey(1)), 1>>,
     <<Pdf(2, BaseConfig @@ PageSizeKey(2)), 0>>,
     <<Pdf(2, ("chunk_token_num" :> 256) @@ PageSizeKey(1)), 0>>,
     <<Pdf(2, BaseConfig @@ PageSizeKey(1) @@ ("raptor" :> TRUE)), 0>>,
     <<Pdf(2, BaseConfig @@ ("pages" :> << <<1, 3>>, <<1, 3>> >>)), 0>>,
     <<Doc("doc", "naive", 0, 0, "e1", BaseConfig), 0>>,
     <<Doc("doc", "mineru", 0, 0, "e1", BaseConfig), 0>>}

\* the queue_tasks calls of the planning specification
PlanPages == (1..MaxPlanPages) \cup {25}

PlanCalls ==
    {<<Pdf(P, BaseConfig @@ PageSizeKey(s)), 0>> : P \in PlanPages, s \in {1, 2, 3, 10}}
    \cup {<<Pdf(P, BaseConfig), 1>> : P \in PlanPages}
    \cup {<<Doc(PDF, "paper", P, 0, "e1", BaseConfig), 0>> : P \in {22, 23, 25}}
    \cup {<<Doc(PDF, "one", P, 0, "e1", BaseConfig @@ PageSizeKey(2)), 0>> :
             P \in {3, 25, DefaultPageRangeEnd - 1, DefaultPageRangeEnd}}
    \cup {<<Pdf(25, BaseConfig @@ PageSizeKey(2) @@ ("layout_recognize" :> "Plain Text")), 0>>,
          <<Pdf(5, BaseConfig @@ PageSizeKey(2) @@ ("pages" :> << <<2, 4>>, <<1, 9>> >>)), 0>>,
          <<Doc(PDF, "mineru", 25, 0, "e1", BaseConfig), 1>>,
          <<Doc("xls", "table", 0, 1, "e1", BaseConfig), 0>>,
          <<Doc("xls", "table", 0, RowsPerTask + 1, "e1", BaseConfig), 0>>,
          <<Doc("doc", "naive", 0, 0, "e1", BaseConfig), 0>>,
          <<Doc("doc", "mineru", 0, 0, "e1", BaseConfig), 0>>}

\* the queue_tasks calls of the re-ingestion specification: a 25 page PDF
\* under configurations that differ in one field each
RerunCalls ==
    {<<Pdf(25, BaseConfig), 0>>,
     <<Pdf(25, BaseConfig @@ PageSizeKey(10)), 0>>,
     <<Pdf(25, "chunk_token_num" :> 256), 0>>,
     <<Pdf(25, BaseConfig @@ ("graphrag" :> TRUE)), 1>>,
     <<Resaved(Pdf(25, BaseConfig @@ PageSizeKey(10) @@ ("raptor" :> TRUE))), 0>>,
     <<Doc(PDF, "naive", 25, 0, "e2", BaseConfig), 0>>,
     <<Doc(PDF, "book", 25, 0, "e1", BaseConfig), 0>>}

\* the queue_tasks calls of the fetch specification: one unit for the whole
\* document
FetchCalls == {<<Doc("doc", "naive", 0, 0, "e1", BaseConfig), 0>>}

\* random.random() / 10.0 lies in [0, 0.1)
Jitter == {0, 5}

\* the lengths of the progress_msg update_progress is called with; 0: ""
MsgInputs == {0}

\* the info update_progress is called with: "progress" is optional
Infos ==
    {[progress_msg |-> m] : m \in MsgInputs \ {0}}
    \cup {[progress_msg |-> m, progress |-> p] :
              m \in MsgInputs, p \in {ProgressDone, ProgressFailed}}

\* progress_msg lengths that reach MsgMaxLen: half of it, and a single line
\* longer than it
LogMsgInputs == {1500, 3100}

\* the info of the log specification: with a long progress_msg, or with
\* "progress" and no "progress_msg" key
LogInfos ==
    {[progress_msg |-> m] : m \in LogMsgInputs}
    \cup {[progress |-> p] : p \in {50, ProgressDone}}

\* the chunk ids update_chunk_ids is called with
ChunkIdInputs == {<<>>, <<1, 2>>}

QueueNames == {get_svr_queue_name(p) : p \in 0..2}

-----------------------------------------------------------------------------
(* The scheduler's operations *)

NoDoc == [type |-> None]

\* No queue_tasks call yet
Idle ==
    [pc |-> "idle", doc |-> NoDoc, priority |-> 0, parse_task_array |-> <<>>, i |-> 1,
     prev_doc |-> NoDoc, prev_tasks |-> <<>>, streams0 |-> <<>>, failed |-> 0,
     prev_after |-> <<>>, deleted |-> <<>>]

\* queue_tasks up to begin2parse: plan, digest, reuse, swap the rows.
\* qt keeps the call's locals (doc, priority, parse_task_array, the loop
\* index i) and, for the record, what the call found: the rows get_tasks
\* returned (prev_tasks), the doc of the run that wrote them (prev_doc), the
\* streams (streams0), the index of the unit whose publish failed (failed,
\* 0 when none did), the rows as the reuse loop left them (prev_after) and
\* the ids of the delete request (deleted, <<>> when none was sent).
QueueTasksPersist(doc, priority) ==
    /\ qt.pc # "dispatch"
    /\ ~PlanRaises(doc)
    /\ \E prev_tasks \in GetTasksOrders(tasks) :
          LET planned == Digested(doc, priority)
              fresh == [k \in 1..Len(planned) |->
                           [planned[k] EXCEPT !.id = nextId + k - 1]]
              reused == IF prev_tasks # <<>>
                        THEN ReuseAll(fresh, prev_tasks)
                        ELSE [tasks |-> fresh, prev_tasks |-> prev_tasks, ck_num |-> 0]
              chunk_ids == LeftoverChunkIds(reused.prev_tasks)
          IN  /\ tasks' = reused.tasks
              /\ nextId' = nextId + Len(planned)
              /\ docStore' = IF chunk_ids # <<>> THEN SeqToSet(chunk_ids) ELSE docStore
              /\ document' = [chunk_num |-> reused.ck_num, run |-> "RUNNING"]
              /\ qt' = [pc |-> "dispatch", doc |-> doc, priority |-> priority,
                        parse_task_array |-> reused.tasks, i |-> 1,
                        prev_doc |-> prevRun, prev_tasks |-> prev_tasks,
                        streams0 |-> streams, failed |-> 0,
                        prev_after |-> reused.prev_tasks, deleted |-> chunk_ids]
    /\ prevRun' = doc
    /\ runs' = runs + 1
    /\ UNCHANGED <<brokerVars, slotVars, workerVars, clusterVars, streams, ret, streamVars>>

\* queue_tasks raises while planning: nothing is written
QueueTasksRaise(doc, priority) ==
    /\ qt.pc # "dispatch"
    /\ PlanRaises(doc)
    /\ qt' = [Idle EXCEPT !.pc = "raised", !.doc = doc, !.priority = priority,
                          !.streams0 = streams]
    /\ runs' = runs + 1
    /\ UNCHANGED <<brokerVars, slotVars, workerVars, clusterVars, tasks, nextId, document, streams, docStore, prevRun, ret, streamVars>>

\* one turn of the dispatch loop: queue_product appends the message
Dispatch ==
    /\ qt.pc = "dispatch"
    /\ qt.i <= Len(Unfinished(qt.parse_task_array))
    /\ LET unfinished_task == Unfinished(qt.parse_task_array)[qt.i]
           task_priority == TaskPriority(qt.doc.parser_id, unfinished_task, qt.priority)
           queue == get_svr_queue_name(task_priority)
       IN  streams' = [streams EXCEPT ![queue] = Append(@, Message(unfinished_task))]
    /\ qt' = [qt EXCEPT !.i = @ + 1]
    /\ UNCHANGED <<brokerVars, slotVars, workerVars, clusterVars, tasks, nextId, document, docStore, prevRun, runs, ret, streamVars>>

\* C12 mutant: the failed publish is passed over and the loop goes on
AssertRaises_PassedOver(call) == [call EXCEPT !.i = @ + 1, !.failed = call.i]

\* assert REDIS_CONN.queue_product(...) on a False: the call ends with an
\* AssertionError; failed keeps the index of the unit whose publish failed
AssertRaises(call) == [call EXCEPT !.pc = "raised", !.failed = call.i]

\* queue_product returns False after its retries: the assert raises
DispatchFails ==
    /\ qt.pc = "dispatch"
    /\ qt.i <= Len(Unfinished(qt.parse_task_array))
    /\ qt' = AssertRaises(qt)
    /\ UNCHANGED <<brokerVars, slotVars, workerVars, clusterVars, tasks, nextId, document, streams, docStore, prevRun, runs, ret, streamVars>>

\* the dispatch loop is over: queue_tasks returns
QueueTasksReturn ==
    /\ qt.pc = "dispatch"
    /\ qt.i > Len(Unfinished(qt.parse_task_array))
    /\ qt' = [qt EXCEPT !.pc = "returned"]
    /\ UNCHANGED <<brokerVars, slotVars, workerVars, clusterVars, tasks, nextId, document, streams, docStore, prevRun, runs, ret, streamVars>>

\* C11 mutant: no task is ever given up
Abandoned_Never(retry_count) == FALSE

\* C4 mutant: one more fetch before the task is given up
Abandoned_OneLater(retry_count) == retry_count > RetryLimit

\* get_task gives the task up once it was fetched RetryLimit times
Abandoned(retry_count) == retry_count >= RetryLimit

RowOf(id) == CHOOSE i \in 1..Len(tasks) : tasks[i].id = id

Exists(id) == \E i \in 1..Len(tasks) : tasks[i].id = id

\* TaskService.get_task; ret keeps what it returned and, for the record, the
\* progress it found on the row (before)
GetTask(task_id) ==
    IF ~Exists(task_id)
    THEN /\ ret' = [op |-> "get_task", id |-> task_id, value |-> None, before |-> 0]
         /\ UNCHANGED <<brokerVars, slotVars, workerVars, clusterVars, tasks, nextId, document, streams, docStore, qt, prevRun, runs, streamVars>>
    ELSE LET i == RowOf(task_id)
             retry_count == tasks[i].retry_count
             abandoned == Abandoned(retry_count)
         IN  /\ \E jitter \in Jitter :
                   LET msg == IF abandoned THEN AbandonedLineLen ELSE ReceivedLineLen
                       prog == IF abandoned THEN ProgressFailed ELSE jitter
                   IN  tasks' = [tasks EXCEPT
                                    ![i].progress_msg = AppendLine(@, msg),
                                    ![i].progress = prog,
                                    ![i].retry_count = retry_count + 1]
             /\ ret' = [op |-> "get_task", id |-> task_id,
                        value |-> IF abandoned THEN None ELSE "task",
                        before |-> tasks[i].progress]
             /\ UNCHANGED <<brokerVars, slotVars, workerVars, clusterVars, nextId, document, streams, docStore, qt, prevRun, runs, streamVars>>

\* TaskService.update_progress, under DB.lock("update_progress") (or on a
\* single writer). info["progress_msg"] is a subscript: without the key it
\* raises KeyError before anything is written
UpdateProgress(id, info) ==
    /\ Exists(id)
    /\ IF "progress_msg" \notin DOMAIN info
       THEN /\ ret' = [op |-> "update_progress", id |-> id, value |-> "KeyError",
                       info |-> info]
            /\ UNCHANGED tasks
       ELSE /\ LET i == RowOf(id)
                   progress_msg ==
                       IF info.progress_msg # 0
                       THEN TrimHeaderByLines(
                                AppendLine(tasks[i].progress_msg, info.progress_msg),
                                MsgMaxLen)
                       ELSE tasks[i].progress_msg
               IN  tasks' = [tasks EXCEPT
                                ![i].progress_msg = progress_msg,
                                ![i].progress = IF "progress" \in DOMAIN info
                                                THEN info.progress ELSE @]
            /\ UNCHANGED ret
    /\ UNCHANGED <<brokerVars, slotVars, workerVars, clusterVars, nextId, document, streams, docStore, qt, prevRun, runs, streamVars>>

\* TaskService.update_chunk_ids
UpdateChunkIds(id, chunk_ids) ==
    /\ Exists(id)
    /\ tasks' = [tasks EXCEPT ![RowOf(id)].chunk_ids = chunk_ids]
    /\ UNCHANGED <<brokerVars, slotVars, workerVars, clusterVars, nextId, document, streams, docStore, qt, prevRun, runs, ret, streamVars>>

-----------------------------------------------------------------------------
(* The broker client's key/value calls, on one key *)

\* the clients of the broker, and the values they store
Clients == {"c1", "c2"}
KvValues == {"v1", "v2", "v3"}

\* how a call on the broker ends: the command runs and its reply arrives, the
\* connection fails before the command runs, or it fails before the reply
\* arrives
Outcomes == {"ok", "unreached", "reply_lost"}

NoCall ==
    [seq |-> 0, by |-> None, via |-> None, op |-> None, arg |-> None,
     outcome |-> None, result |-> None]

\* the record of a call; seq alternates so that no two calls in a row leave
\* the same record
Called(by, via, op, arg, outcome, result) ==
    [seq |-> 1 - last.seq, by |-> by, via |-> via, op |-> op, arg |-> arg,
     outcome |-> outcome, result |-> result]

Bool(b) == IF b THEN "True" ELSE "False"

\* C5 mutant: the script deletes whatever the key holds
LuaDeleteIfEqual_Uncompared(current_value, expected_value) ==
    IF current_value # None
    THEN [value |-> None, reply |-> 1]
    ELSE [value |-> current_value, reply |-> 0]

\* LUA_DELETE_IF_EQUAL_SCRIPT, which the broker runs as one step: the value
\* under the key after it, and its reply
LuaDeleteIfEqual(current_value, expected_value) ==
    IF current_value # None /\ current_value = expected_value
    THEN [value |-> None, reply |-> 1]
    ELSE [value |-> current_value, reply |-> 0]

\* C7 mutant: the key is deleted whatever the script replies
delete_if_equal_Always(current_value, expected_value, outcome) ==
    [value |-> IF outcome = "unreached" THEN current_value ELSE None,
     result |-> outcome = "ok"]

\* RedisDB.delete_if_equal: the value under the key after it, and what it
\* returns
delete_if_equal(current_value, expected_value, outcome) ==
    LET script == LuaDeleteIfEqual(current_value, expected_value)
    IN  [value |-> IF outcome = "unreached" THEN current_value ELSE script.value,
         result |-> IF outcome = "ok" THEN script.reply = 1 ELSE FALSE]

\* RedisDB.set
KvSet(c, v, outcome) ==
    /\ kv' = IF outcome = "unreached" THEN kv ELSE v
    /\ last' = Called(c, None, "set", v, outcome, Bool(outcome = "ok"))
    /\ UNCHANGED <<schedVars, lk, held, slotVars, workerVars, clusterVars, streamVars>>

\* RedisDB.delete
KvDelete(c, outcome) ==
    /\ kv' = IF outcome = "unreached" THEN kv ELSE None
    /\ last' = Called(c, None, "delete", None, outcome, Bool(outcome = "ok"))
    /\ UNCHANGED <<schedVars, lk, held, slotVars, workerVars, clusterVars, streamVars>>

\* RedisDB.delete_if_equal
KvDeleteIfEqual(c, expected_value, outcome) ==
    /\ LET call == delete_if_equal(kv, expected_value, outcome)
       IN  /\ kv' = call.value
           /\ last' = Called(c, None, "delete_if_equal", expected_value, outcome,
                              Bool(call.result))
    /\ UNCHANGED <<schedVars, lk, held, slotVars, workerVars, clusterVars, streamVars>>

-----------------------------------------------------------------------------
(* RedisDistributedLock, one lock_key, one lock object per process *)

Procs == {"p1", "p2", "p3"}

\* C6 mutant: the processes are given one lock_value
lock_value_Shared(p) == "shared"

\* self.lock_value: a uuid4 of its own for each lock object
lock_value(p) == p

\* the processes whose token a value is
Owners(value) == {p \in Procs : lock_value(p) = value}

\* held[p] is "yes" from the time an acquire or spin_acquire of p set the key
\* until p calls release or the key expires; it is "reentered" from the time
\* p, holding, calls acquire or spin_acquire again, until that call sets the
\* key, p calls release, or the hold timeout elapses.
Reenter(h) == IF h = "yes" THEN "reentered" ELSE h

\* the first statement of acquire and of spin_acquire:
\* REDIS_CONN.delete_if_equal(self.lock_key, self.lock_value)
SelfClear(p, via, outcome) ==
    /\ lk[p] = "idle"
    /\ LET call == delete_if_equal(kv, lock_value(p), outcome)
       IN  /\ kv' = call.value
           /\ last' = Called(p, via, "delete_if_equal", lock_value(p), outcome,
                              Bool(call.result))
    /\ held' = [held EXCEPT ![p] = Reenter(@)]

\* acquire, up to self.lock.acquire
AcquireStart(p, outcome) ==
    /\ SelfClear(p, "acquire", outcome)
    /\ lk' = [lk EXCEPT ![p] = "acquire"]
    /\ UNCHANGED <<schedVars, slotVars, workerVars, clusterVars, streamVars>>

\* valkey's Lock.acquire(token=...) sets the key to the token, if the key is
\* absent, with the hold timeout as its expiry; acquire returns True
AcquireSets(p) ==
    /\ lk[p] = "acquire"
    /\ kv = None
    /\ kv' = lock_value(p)
    /\ held' = [held EXCEPT ![p] = "yes"]
    /\ lk' = [lk EXCEPT ![p] = "idle"]
    /\ last' = Called(p, "acquire", "set_nx", lock_value(p), "ok", "True")
    /\ UNCHANGED <<schedVars, slotVars, workerVars, clusterVars, streamVars>>

\* Lock.acquire found the key present until blocking_timeout ran out:
\* acquire returns False
AcquireFails(p) ==
    /\ lk[p] = "acquire"
    /\ kv # None
    /\ lk' = [lk EXCEPT ![p] = "idle"]
    /\ last' = Called(p, "acquire", "set_nx", lock_value(p), "ok", "False")
    /\ UNCHANGED <<schedVars, slotVars, workerVars, clusterVars, kv, held, streamVars>>

\* Lock.acquire raises (the connection fails): acquire raises
AcquireRaises(p) ==
    /\ lk[p] = "acquire"
    /\ lk' = [lk EXCEPT ![p] = "idle"]
    /\ last' = Called(p, "acquire", "set_nx", lock_value(p), "unreached", "raised")
    /\ UNCHANGED <<schedVars, slotVars, workerVars, clusterVars, kv, held, streamVars>>

\* spin_acquire, up to its loop
SpinStart(p, outcome) ==
    /\ SelfClear(p, "spin_acquire", outcome)
    /\ lk' = [lk EXCEPT ![p] = "spin"]
    /\ UNCHANGED <<schedVars, slotVars, workerVars, clusterVars, streamVars>>

\* a turn of the loop of spin_acquire in which Lock.acquire sets the key:
\* spin_acquire returns. A turn in which it does not changes nothing and
\* sleeps.
SpinSets(p) ==
    /\ lk[p] = "spin"
    /\ kv = None
    /\ kv' = lock_value(p)
    /\ held' = [held EXCEPT ![p] = "yes"]
    /\ lk' = [lk EXCEPT ![p] = "idle"]
    /\ last' = Called(p, "spin_acquire", "set_nx", lock_value(p), "ok", "None")
    /\ UNCHANGED <<schedVars, slotVars, workerVars, clusterVars, streamVars>>

\* C26 mutant: the loop goes round at once when the attempt raised
AfterMiss_Retry(kind) == IF kind = "raised" THEN "spin" ELSE "sleep"

\* where spin_acquire is after a turn of its loop that did not break: at
\* trio.sleep(10), which follows the try statement whatever the attempt did
AfterMiss(kind) == "sleep"

\* a turn of the loop in which Lock.acquire returns False (the key was present
\* until blocking_timeout ran out) or raises (the exception handler never
\* raises again)
SpinMisses(p, kind) ==
    /\ lk[p] = "spin"
    /\ kind = "False" => kv # None
    /\ lk' = [lk EXCEPT ![p] = AfterMiss(kind)]
    /\ last' = Called(p, "spin_acquire", "set_nx", lock_value(p),
                      IF kind = "raised" THEN "unreached" ELSE "ok", kind)
    /\ UNCHANGED <<schedVars, slotVars, workerVars, clusterVars, kv, held, streamVars>>

\* trio.sleep(10) is over: the loop goes round
SpinWakes(p) ==
    /\ lk[p] = "sleep"
    /\ lk' = [lk EXCEPT ![p] = "spin"]
    /\ UNCHANGED <<schedVars, slotVars, workerVars, clusterVars, kv, held, last, streamVars>>

\* the process stops while it holds the lock and never calls release
Crash(p) ==
    /\ lk[p] = "idle"
    /\ held[p] = "yes"
    /\ lk' = [lk EXCEPT ![p] = "crashed"]
    /\ UNCHANGED <<schedVars, slotVars, workerVars, clusterVars, kv, held, last, streamVars>>

\* release
Release(p, outcome) ==
    /\ lk[p] = "idle"
    /\ LET call == delete_if_equal(kv, lock_value(p), outcome)
       IN  /\ kv' = call.value
           /\ last' = Called(p, "release", "delete_if_equal", lock_value(p), outcome,
                              "None")
    /\ held' = [held EXCEPT ![p] = "no"]
    /\ UNCHANGED <<schedVars, slotVars, workerVars, clusterVars, lk, streamVars>>

\* C27 mutant: the key is set without an expiry
Expired_Never(value) == value

\* what a key set with an expiry (Lock(timeout=timeout)) holds once the
\* expiry is reached
Expired(value) == None

\* the broker drops the key when its expiry is reached: the hold timeout of
\* the process that set it has elapsed
Expire ==
    /\ kv # None
    /\ kv' = Expired(kv)
    /\ held' = [p \in Procs |-> IF p \in Owners(kv) THEN "no" ELSE held[p]]
    /\ UNCHANGED <<schedVars, slotVars, workerVars, clusterVars, lk, last, streamVars>>

\* the hold timeout of a process elapses after the process itself cleared
\* the key
HoldTimeout(p) ==
    /\ held[p] = "reentered"
    /\ kv # lock_value(p)
    /\ held' = [held EXCEPT ![p] = "no"]
    /\ UNCHANGED <<schedVars, slotVars, workerVars, clusterVars, kv, lk, last, streamVars>>

-----------------------------------------------------------------------------
(* RedisDB._get_key_slot *)

RECURSIVE BitXor(_, _)
BitXor(a, b) ==
    IF a = 0 THEN b
    ELSE IF b = 0 THEN a
    ELSE 2 * BitXor(a \div 2, b \div 2) + (((a % 2) + (b % 2)) % 2)

\* key.encode("utf-8") of a str of code points below 0x800
RECURSIVE Utf8(_)
Utf8(chars) ==
    IF chars = <<>> THEN <<>>
    ELSE LET c == Head(chars)
         IN  (IF c < 128 THEN <<c>> ELSE <<192 + (c \div 64), 128 + (c % 64)>>)
                 \o Utf8(Tail(chars))

\* the data crc16 is given: a str is encoded, bytes are taken as they are
KeyBytes(key) == IF key.type = "str" THEN Utf8(key.chars) ELSE key.chars

\* C8 mutant: the polynomial of CRC-16/ARC in place of 0x1021
CrcShift_Poly8005(crc) ==
    (IF (crc \div TopBit) % 2 = 1 THEN BitXor(crc * 2, 32773) ELSE crc * 2)
        % Modulus

\* one turn of the inner loop of crc16: the shift, the xor with the
\* polynomial when bit 15 was set, and the mask crc &= 0xFFFF
CrcShift(crc) ==
    (IF (crc \div TopBit) % 2 = 1 THEN BitXor(crc * 2, Polynomial) ELSE crc * 2)
        % Modulus

\* one turn of the outer loop of crc16
CrcByte(crc, byte) ==
    LET c0 == BitXor(crc, byte * 256)
    IN  CrcShift(CrcShift(CrcShift(CrcShift(
            CrcShift(CrcShift(CrcShift(CrcShift(c0))))))))

Str(chars) == [type |-> "str", chars |-> chars]
Bytes(chars) == [type |-> "bytes", chars |-> chars]

\* the keys _get_key_slot is called with: "123456789", "é", "{é}", every
\* string and byte string up to MaxKeyLen over a small alphabet
KeyAlphabet == {0, 49, 97, 127}
ByteAlphabet == {0, 128, 255}

StringsUpTo(alphabet, n) == UNION {[1..k -> alphabet] : k \in 0..n}

SlotKeys ==
    {Str(<<49, 50, 51, 52, 53, 54, 55, 56, 57>>), Str(<<233>>), Str(<<123, 233, 125>>)}
    \cup {Str(chars) : chars \in StringsUpTo(KeyAlphabet, MaxKeyLen)}
    \cup {Bytes(chars) : chars \in StringsUpTo(ByteAlphabet, MaxKeyLen)}

NoSlot == [pc |-> "idle", key |-> Str(<<>>), data |-> <<>>, i |-> 0, crc |-> 0,
           result |-> 0, prev_key |-> Str(<<>>), prev_result |-> 0]

\* _get_key_slot is called: the key is encoded and crc starts at 0; the
\* previous call's key and result are kept for comparison
GetKeySlotCall(key) ==
    /\ slot.pc # "loop"
    /\ slot' = [pc |-> "loop", key |-> key, data |-> KeyBytes(key), i |-> 0, crc |-> 0,
                result |-> 0,
                prev_key |-> IF slot.pc = "returned" THEN slot.key ELSE slot.prev_key,
                prev_result |-> IF slot.pc = "returned" THEN slot.result
                                ELSE slot.prev_result]
    /\ UNCHANGED <<schedVars, brokerVars, workerVars, clusterVars, streamVars>>

\* for byte in data
GetKeySlotByte ==
    /\ slot.pc = "loop"
    /\ slot.i < Len(slot.data)
    /\ slot' = [slot EXCEPT !.i = @ + 1, !.crc = CrcByte(@, slot.data[slot.i + 1])]
    /\ UNCHANGED <<schedVars, brokerVars, workerVars, clusterVars, streamVars>>

\* return crc16(key) % 16384
GetKeySlotReturn ==
    /\ slot.pc = "loop"
    /\ slot.i = Len(slot.data)
    /\ slot' = [slot EXCEPT !.pc = "returned", !.result = slot.crc % SlotCount]
    /\ UNCHANGED <<schedVars, brokerVars, workerVars, clusterVars, streamVars>>

-----------------------------------------------------------------------------
(* The workers: get_task and update_progress statement by statement, so that
   the calls of two workers interleave as the database lets them *)

Workers == {"w1", "w2"}

\* the progress_msg a worker calls update_progress with: the workers' lines
\* differ in length, so that a line tells who wrote it
MsgOf(w) == IF w = "w1" THEN 7 ELSE 9

\* the info a worker calls update_progress with
WorkerInfos(w) ==
    {[progress_msg |-> MsgOf(w)],
     [progress_msg |-> MsgOf(w), progress |-> ProgressDone],
     [progress_msg |-> 0, progress |-> ProgressFailed]}

NoWork ==
    [pc |-> "idle", id |-> 0, info |-> [progress_msg |-> 0], locked |-> FALSE,
     task_msg |-> <<0>>, retry_count |-> 0]

\* the record of the calls: per task id the get_task calls completed and the
\* ones that returned the task; per <<id, length>> the lines update_progress
\* wrote; the ids update_progress was called on without the lock; the calls
\* started
NoLog == [calls |-> <<>>, handed |-> <<>>, appended |-> <<>>, unlocked |-> {},
          started |-> 0]

Count(f, k) == IF k \in DOMAIN f THEN f[k] ELSE 0

Bump(f, k) == (k :> (Count(f, k) + 1)) @@ f

\* C14 mutant: the lock is taken in no environment
TakesLock_Never(macos) == FALSE

\* update_progress takes DB.lock("update_progress") unless MACOS is set in
\* the environment of the process
TakesLock(macos) == ~macos

\* update_progress is called: with MACOS set it goes to its body, without it
\* waits for the lock
UpCall(w, id, info, macos) ==
    /\ wk[w].pc = "idle"
    /\ wk' = [wk EXCEPT ![w] = [NoWork EXCEPT
                 !.pc = IF TakesLock(macos) THEN "up_lock" ELSE "up_body",
                 !.id = id, !.info = info, !.locked = ~macos]]
    /\ log' = [log EXCEPT !.started = @ + 1,
                          !.unlocked = IF macos THEN @ \cup {id} ELSE @]
    /\ UNCHANGED <<schedVars, brokerVars, slotVars, clusterVars, dblock, streamVars>>

\* with DB.lock("update_progress", -1): the lock is free and the worker
\* takes it
UpLock(w) ==
    /\ wk[w].pc = "up_lock"
    /\ dblock = None
    /\ dblock' = w
    /\ wk' = [wk EXCEPT ![w].pc = "up_body"]
    /\ UNCHANGED <<schedVars, brokerVars, slotVars, clusterVars, log, streamVars>>

\* the lock is given back when the with block is left, normally or not
Unlock(w) == IF dblock = w THEN None ELSE dblock

\* if info["progress_msg"]: task = cls.model.get_by_id(id). The read raises
\* when the row is gone; with an empty message the body goes on to the
\* progress.
UpRead(w) ==
    /\ wk[w].pc = "up_body"
    /\ IF wk[w].info.progress_msg = 0
       THEN wk' = [wk EXCEPT ![w].pc = "up_progress"] /\ UNCHANGED dblock
       ELSE IF Exists(wk[w].id)
       THEN /\ wk' = [wk EXCEPT ![w].pc = "up_write",
                                ![w].task_msg = tasks[RowOf(wk[w].id)].progress_msg]
            /\ UNCHANGED dblock
       ELSE wk' = [wk EXCEPT ![w] = NoWork] /\ dblock' = Unlock(w)
    /\ UNCHANGED <<schedVars, brokerVars, slotVars, clusterVars, log, streamVars>>

\* cls.model.update(progress_msg=progress_msg).where(cls.model.id == id):
\* the text that was read, with the line appended and the header trimmed
UpWrite(w) ==
    /\ wk[w].pc = "up_write"
    /\ LET progress_msg ==
               TrimHeaderByLines(
                   AppendLine(wk[w].task_msg, wk[w].info.progress_msg), MsgMaxLen)
       IN  tasks' = IF Exists(wk[w].id)
                    THEN [tasks EXCEPT ![RowOf(wk[w].id)].progress_msg = progress_msg]
                    ELSE tasks
    /\ log' = [log EXCEPT !.appended =
                   IF Exists(wk[w].id)
                   THEN Bump(@, <<wk[w].id, wk[w].info.progress_msg>>) ELSE @]
    /\ wk' = [wk EXCEPT ![w].pc = "up_progress"]
    /\ UNCHANGED <<brokerVars, slotVars, clusterVars, dblock,
                   nextId, document, streams, docStore, qt, prevRun, runs, ret, streamVars>>

\* if "progress" in info: cls.model.update(progress=info["progress"]); the
\* call returns
UpProgress(w) ==
    /\ wk[w].pc = "up_progress"
    /\ tasks' = IF "progress" \in DOMAIN wk[w].info /\ Exists(wk[w].id)
                THEN [tasks EXCEPT ![RowOf(wk[w].id)].progress = wk[w].info.progress]
                ELSE tasks
    /\ dblock' = Unlock(w)
    /\ wk' = [wk EXCEPT ![w] = NoWork]
    /\ UNCHANGED <<brokerVars, slotVars, clusterVars, log,
                   nextId, document, streams, docStore, qt, prevRun, runs, ret, streamVars>>

\* get_task, the select: no row, and the call returns None; otherwise docs[0]
\* keeps the retry_count that was read
GtRead(w, id) ==
    /\ wk[w].pc = "idle"
    /\ log' = [log EXCEPT !.started = @ + 1]
    /\ IF ~Exists(id)
       THEN /\ ret' = [op |-> "get_task", id |-> id, value |-> None, before |-> 0]
            /\ UNCHANGED wk
       ELSE /\ wk' = [wk EXCEPT ![w] = [NoWork EXCEPT
                         !.pc = "gt_write", !.id = id,
                         !.retry_count = tasks[RowOf(id)].retry_count]]
            /\ UNCHANGED ret
    /\ UNCHANGED <<brokerVars, slotVars, clusterVars, dblock,
                   tasks, nextId, document, streams, docStore, qt, prevRun, runs, streamVars>>

\* get_task, the update and the return: the line is appended by the database
\* to the text the row holds; progress and retry_count are computed from
\* what the select read
GtWrite(w) ==
    /\ wk[w].pc = "gt_write"
    /\ LET id == wk[w].id
           abandoned == Abandoned(wk[w].retry_count)
           msg == IF abandoned THEN AbandonedLineLen ELSE ReceivedLineLen
       IN  /\ \E jitter \in Jitter :
                 tasks' = IF Exists(id)
                          THEN [tasks EXCEPT
                                   ![RowOf(id)].progress_msg = AppendLine(@, msg),
                                   ![RowOf(id)].progress =
                                       IF abandoned THEN ProgressFailed ELSE jitter,
                                   ![RowOf(id)].retry_count = wk[w].retry_count + 1]
                          ELSE tasks
           /\ ret' = [op |-> "get_task", id |-> id,
                      value |-> IF abandoned THEN None ELSE "task",
                      before |-> IF Exists(id) THEN tasks[RowOf(id)].progress ELSE 0]
           /\ log' = [log EXCEPT
                         !.calls = Bump(@, id),
                         !.handed = IF abandoned THEN @ ELSE Bump(@, id)]
    /\ wk' = [wk EXCEPT ![w] = NoWork]
    /\ UNCHANGED <<brokerVars, slotVars, clusterVars, dblock,
                   nextId, document, streams, docStore, qt, prevRun, runs, streamVars>>

-----------------------------------------------------------------------------
(* The broker client in cluster mode: _execute_with_cluster_redirect under
   queue_product and get *)

\* crc16(data) over its first k bytes
RECURSIVE crc16(_, _)
crc16(data, k) == IF k = 0 THEN 0 ELSE CrcByte(crc16(data, k - 1), data[k])

\* self._get_key_slot(key)
KeySlotOf(key) == crc16(KeyBytes(key), Len(KeyBytes(key))) % SlotCount

\* the key of the operations of the model, the slots a redirect may name (the
\* key's and another) and the nodes it may name
ClusterKey == Str(<<113>>)
Slots == {KeySlotOf(ClusterKey), 0}
Nodes == {"n1:6379", "n2:6379"}
ClusterOps == {"queue_product", "get"}

\* the key/value operations, and what each returns after its except branch
KvOps ==
    {"exist", "get", "set", "sadd", "srem", "smembers", "zadd", "zcount",
     "zpopmin", "zrangebyscore", "delete", "delete_if_equal"}

OnFailure(op) ==
    IF op \in {"set", "sadd", "srem", "zadd", "delete", "delete_if_equal"} THEN "False"
    ELSE IF op = "zcount" THEN "0"
    ELSE "None"

NoReply == [kind |-> None, slot |-> 0, node |-> None, attempt |-> 0]

\* cluster_slot_cache, empty after __init__, and no call yet. A call keeps
\* its locals (cached_node, attempt), the turn of the loop of queue_product
\* (round) and, for the record, the number of times operation_func was run
\* (sent), whether every run was answered with a redirect (all_moved), the
\* last reply and the cache before it (cache_before).
NoClusterCall ==
    [pc |-> "idle", op |-> None, is_cluster |-> FALSE,
     cluster_slot_cache |-> [sl \in Slots |-> None],
     cache_before |-> [sl \in Slots |-> None],
     cached_node |-> None, round |-> 1, attempt |-> 0, sent |-> 0,
     all_moved |-> TRUE, reply |-> NoReply, result |-> None, reopened |-> FALSE]

\* self._get_node_for_slot(self._get_key_slot(key))
CachedNode(cache) == cache[KeySlotOf(ClusterKey)]

\* C15 mutant: the handler gives up one attempt later
LastAttempt_OneLater(attempt) == attempt = max_retries

\* attempt == max_retries - 1
LastAttempt(attempt) == attempt = max_retries - 1

\* C29 mutant: the reconnect starts from an empty cache
Open_ClearsCache(call) ==
    [call EXCEPT !.reopened = TRUE, !.cluster_slot_cache = [sl \in Slots |-> None]]

\* self.__open__(): REDIS is connected again; cluster_slot_cache is not
\* assigned
Open(call) == [call EXCEPT !.reopened = TRUE]

\* the operation's except branch, reached when the handler raises (when
\* operation_func raises, if not in cluster mode): queue_product logs and
\* goes to its next try, or returns False after the last; get logs,
\* reconnects and returns None
Caught(call) ==
    IF call.op = "queue_product" /\ call.round < ProductTries
    THEN [call EXCEPT !.round = @ + 1, !.attempt = 0,
                      !.cached_node = CachedNode(call.cluster_slot_cache)]
    ELSE IF call.op = "queue_product"
    THEN [call EXCEPT !.pc = "done", !.result = "False"]
    ELSE [Open(call) EXCEPT !.pc = "done", !.result = OnFailure(call.op)]

\* an operation is called
ClCall(op, is_cluster) ==
    /\ cl.pc # "attempt"
    /\ cl' = [NoClusterCall EXCEPT
                 !.pc = "attempt", !.op = op, !.is_cluster = is_cluster,
                 !.cluster_slot_cache = cl.cluster_slot_cache,
                 !.cache_before = cl.cluster_slot_cache,
                 !.cached_node = IF is_cluster THEN CachedNode(cl.cluster_slot_cache)
                                 ELSE None]
    /\ UNCHANGED <<schedVars, brokerVars, slotVars, workerVars, streamVars>>

\* operation_func is run, on the cached node's connection or the default
\* one, and returns
ClAttemptOk ==
    /\ cl.pc = "attempt"
    /\ cl' = [cl EXCEPT !.pc = "done", !.sent = @ + 1, !.all_moved = FALSE,
                        !.cache_before = cl.cluster_slot_cache,
                        !.reply = [NoReply EXCEPT !.kind = "ok", !.attempt = cl.attempt],
                        !.result = IF cl.op = "queue_product" THEN "True" ELSE "value"]
    /\ UNCHANGED <<schedVars, brokerVars, slotVars, workerVars, streamVars>>

\* operation_func raises "MOVED slot host:port": before the last attempt
\* _handle_cluster_redirect updates the cache and the loop goes on; at the
\* last attempt the handler raises
ClAttemptMoved(sl, node) ==
    /\ cl.pc = "attempt"
    /\ cl.is_cluster
    /\ LET got == [cl EXCEPT
                      !.sent = @ + 1,
                      !.cache_before = cl.cluster_slot_cache,
                      !.reply = [kind |-> "moved", slot |-> sl, node |-> node,
                                 attempt |-> cl.attempt]]
           cache == [cl.cluster_slot_cache EXCEPT ![sl] = node]
       IN  cl' = IF ~LastAttempt(cl.attempt)
                 THEN [got EXCEPT !.cluster_slot_cache = cache,
                                  !.cached_node = CachedNode(cache),
                                  !.attempt = @ + 1]
                 ELSE Caught(got)
    /\ UNCHANGED <<schedVars, brokerVars, slotVars, workerVars, streamVars>>

\* operation_func raises another error: in cluster mode the handler logs it
\* and goes to its next attempt, or raises at the last; otherwise the error
\* reaches the operation at once
ClAttemptFails ==
    /\ cl.pc = "attempt"
    /\ LET got == [cl EXCEPT
                      !.sent = @ + 1, !.all_moved = FALSE,
                      !.cache_before = cl.cluster_slot_cache,
                      !.reply = [NoReply EXCEPT !.kind = "error", !.attempt = cl.attempt]]
       IN  cl' = IF cl.is_cluster /\ ~LastAttempt(cl.attempt)
                 THEN [got EXCEPT !.attempt = @ + 1]
                 ELSE Caught(got)
    /\ UNCHANGED <<schedVars, brokerVars, slotVars, workerVars, streamVars>>

-----------------------------------------------------------------------------
(* Streams and their consumer group: queue_consumer, requeue_msg,
   get_unacked_iterator *)

StreamNames == {"q1", "q2"}
Consumers == {"c1", "c2"}

\* a stream key that does not exist. The id of an entry is its index in
\* entries, which holds the payloads; delivered is the group's last delivered
\* id; pending holds <<id, consumer>> for the ids handed out and not
\* acknowledged. For the record: handed, the ids in the order the broker
\* handed them to the group; got, those queue_consumer returned; before, the
\* number of entries when the group was created.
NoStream ==
    [exists |-> FALSE, entries |-> <<>>, group |-> FALSE, delivered |-> 0,
     pending |-> {}, handed |-> <<>>, got |-> <<>>, before |-> 0]

\* queue_product reaches the broker: xadd appends an entry, making the stream
Produce(q) ==
    /\ Len(sg[q].entries) < MaxEntries
    /\ sg' = [sg EXCEPT ![q].exists = TRUE, ![q].entries = Append(@, Len(@) + 1)]
    /\ UNCHANGED <<schedVars, brokerVars, slotVars, workerVars, clusterVars, rq, it>>

\* C23 mutant: the group is created at the end of the stream (id="$")
CreateAt_End(entries) == Len(entries)

\* xgroup_create(queue, group, id="0", mkstream=True): the last delivered id
\* of the new group
CreateAt(entries) == 0

Created(s) ==
    [s EXCEPT !.group = TRUE, !.delivered = CreateAt(s.entries),
              !.before = Len(s.entries)]

\* one run of the body of queue_consumer with msg_id ">" (in cluster mode
\* the body is run again, up to 3 times, when it raised). failing is the
\* command that raises, lost whether the broker ran it before it raised.
\* xinfo_groups raises "no such key" on a stream that does not exist;
\* xreadgroup with count 1 hands the entry after the last delivered to the
\* consumer
Consume(q, c, failing, lost) ==
    /\ it.pc \in {"idle", "done"} \/ it.consumer # c
    /\ failing = "xgroup_create" => sg[q].exists /\ ~sg[q].group
    /\ LET s0 == sg[q]
           created == IF s0.group THEN s0 ELSE Created(s0)
           next == created.delivered + 1
           has == next <= Len(created.entries)
           read == [created EXCEPT !.delivered = next,
                                   !.pending = @ \cup {<<next, c>>},
                                   !.handed = Append(@, next)]
       IN  sg' = [sg EXCEPT ![q] =
                     IF ~s0.exists \/ failing = "xinfo_groups" THEN s0
                     ELSE IF failing = "xgroup_create"
                          THEN (IF lost THEN created ELSE s0)
                     ELSE IF failing = "xreadgroup"
                          THEN (IF lost /\ has THEN read ELSE created)
                     ELSE IF has THEN [read EXCEPT !.got = Append(@, next)]
                     ELSE created]
    /\ UNCHANGED <<schedVars, brokerVars, slotVars, workerVars, clusterVars, rq, it>>

ConsumeFailures == {"none", "xinfo_groups", "xgroup_create", "xreadgroup"}

NoRequeue ==
    [pc |-> "idle", queue |-> None, id |-> 0, is_cluster |-> FALSE, attempt |-> 0,
     added |-> 0, result |-> None]

\* C24 mutant: the entry is acknowledged before it is copied
RqNext_AckFirst(pc) ==
    IF pc = "xrange" THEN "xack" ELSE IF pc = "xack" THEN "xadd" ELSE "done"

\* _requeue_operation: xrange, then xadd, then xack
RqNext(pc) ==
    IF pc = "xrange" THEN "xadd" ELSE IF pc = "xadd" THEN "xack" ELSE "done"

\* requeue_msg is called on a pending entry
RqCall(q, id, is_cluster) ==
    /\ rq.pc \in {"idle", "done"}
    /\ Len(sg[q].entries) <= MaxEntries
    /\ \E c \in Consumers : <<id, c>> \in sg[q].pending
    /\ rq' = [NoRequeue EXCEPT !.pc = "xrange", !.queue = q, !.id = id,
                               !.is_cluster = is_cluster]
    /\ UNCHANGED <<schedVars, brokerVars, slotVars, workerVars, clusterVars, sg, it>>

\* a command of _requeue_operation raised: in cluster mode the handler runs
\* the operation again from its start, or raises at the last attempt;
\* requeue_msg logs what the handler raises
RqRaised(call) ==
    IF call.is_cluster /\ ~LastAttempt(call.attempt)
    THEN [call EXCEPT !.attempt = @ + 1, !.pc = "xrange"]
    ELSE [call EXCEPT !.pc = "done", !.result = "failed"]

\* the next command of _requeue_operation: xrange reads the entry, xadd
\* appends its payload as a new entry, xack takes it off the pending list
RqStep(outcome) ==
    /\ rq.pc \in {"xrange", "xadd", "xack"}
    /\ LET q == rq.queue
           ran == outcome # "unreached"
           after == IF outcome = "ok"
                    THEN [rq EXCEPT !.pc = RqNext(rq.pc),
                                    !.result = IF RqNext(rq.pc) = "done" THEN "ok" ELSE @]
                    ELSE RqRaised(rq)
       IN  /\ sg' = IF ran /\ rq.pc = "xadd"
                    THEN [sg EXCEPT ![q].entries = Append(@, @[rq.id])]
                    ELSE IF ran /\ rq.pc = "xack"
                    THEN [sg EXCEPT ![q].pending = {pr \in @ : pr[1] # rq.id}]
                    ELSE sg
           /\ rq' = [after EXCEPT !.added = IF ran /\ rq.pc = "xadd" THEN @ + 1 ELSE @]
    /\ UNCHANGED <<schedVars, brokerVars, slotVars, workerVars, clusterVars, it>>

\* queue_names, as get_unacked_iterator is called
IterQueues == <<"q1", "q2">>

\* group_info is None while the local is unbound, and then whether the group
\* was in the last list xinfo_groups returned; for the record, redirected
\* holds the queues whose query was answered with a redirect
NoIter ==
    [pc |-> "idle", consumer |-> None, is_cluster |-> FALSE, qi |-> 1,
     current_min |-> 0, yielded |-> <<>>, group_info |-> None, redirected |-> {}]

IterStart(c, is_cluster) ==
    /\ it.pc \in {"idle", "done"}
    /\ it' = [NoIter EXCEPT !.pc = "query", !.consumer = c, !.is_cluster = is_cluster]
    /\ UNCHANGED <<schedVars, brokerVars, slotVars, workerVars, clusterVars, sg, rq>>

\* continue, or break out of the inner loop: the next queue of the list, or
\* the end of the generator
NextQueue(call) ==
    IF call.qi < Len(IterQueues)
    THEN [call EXCEPT !.qi = @ + 1, !.pc = "query"]
    ELSE [call EXCEPT !.pc = "done"]

\* the xinfo_groups query of the iterator on the queue at hand and the tests
\* that follow it. "ok": the list is returned, or "no such key" is raised
\* when the stream does not exist; "moved": a redirect, handled in cluster
\* mode by _handle_cluster_redirect and continue; any other exception falls
\* through to the test of group_info, which raises when the local is unbound
\* (the outer except ends the generator)
IterQuery(reply, sl, node) ==
    /\ it.pc = "query"
    /\ LET q == IterQueues[it.qi]
           Enter(call) == [call EXCEPT !.pc = "read", !.current_min = 0]
           Test(call) == IF call.group_info = "True" THEN Enter(call)
                         ELSE NextQueue(call)
           redirected == reply = "moved" /\ it.is_cluster
       IN  /\ it' = IF reply = "ok"
                    THEN (IF ~sg[q].exists THEN NextQueue(it)
                          ELSE Test([it EXCEPT !.group_info = Bool(sg[q].group)]))
                    ELSE IF redirected
                    THEN [NextQueue(it) EXCEPT !.redirected = @ \cup {q}]
                    ELSE IF it.group_info = None THEN [it EXCEPT !.pc = "done"]
                    ELSE Test(it)
           /\ cl' = IF redirected
                    THEN [cl EXCEPT !.cluster_slot_cache[sl] = node]
                    ELSE cl
    /\ UNCHANGED <<schedVars, brokerVars, slotVars, workerVars, sg, rq>>

\* payload = self.queue_consumer(queue, group, consumer, current_min): the
\* first entry pending for the consumer after current_min is yielded; with
\* none, or when queue_consumer caught an exception, the inner loop breaks.
\* queue_consumer creates the group if the stream has none
IterRead(outcome) ==
    /\ it.pc = "read"
    /\ LET q == IterQueues[it.qi]
           after == {pr[1] : pr \in {x \in sg[q].pending :
                                        x[2] = it.consumer /\ x[1] > it.current_min}}
           id == CHOOSE i \in after : \A j \in after : i <= j
       IN  IF outcome # "ok" \/ ~sg[q].exists
           THEN it' = NextQueue(it) /\ UNCHANGED sg
           ELSE /\ sg' = IF sg[q].group THEN sg ELSE [sg EXCEPT ![q] = Created(@)]
                /\ it' = IF after = {} THEN NextQueue(it)
                         ELSE [it EXCEPT !.yielded = Append(@, <<q, id>>),
                                         !.current_min = id]
    /\ UNCHANGED <<schedVars, brokerVars, slotVars, workerVars, clusterVars, rq>>

Init ==
    /\ tasks = <<>>
    /\ nextId = 1
    /\ document = [chunk_num |-> 0, run |-> "UNSTART"]
    /\ streams = [q \in QueueNames |-> <<>>]
    /\ docStore = {}
    /\ qt = Idle
    /\ prevRun = NoDoc
    /\ runs = 0
    /\ ret = [op |-> None]
    /\ kv = None
    /\ last = NoCall
    /\ lk = [p \in Procs |-> "idle"]
    /\ held = [p \in Procs |-> "no"]
    /\ slot = NoSlot
    /\ wk = [w \in Workers |-> NoWork]
    /\ dblock = None
    /\ log = NoLog
    /\ cl = NoClusterCall
    /\ sg = [q \in StreamNames |-> NoStream]
    /\ rq = NoRequeue
    /\ it = NoIter

TaskIds == 1..(nextId - 1)

Fetches(id) == IF Exists(id) THEN tasks[RowOf(id)].retry_count ELSE 0

\* the workers act on the rows for as long as a queue_tasks call may follow
Working == runs < MaxRuns

Next ==
    \/ \E call \in SchedCalls : runs < MaxRuns /\ QueueTasksPersist(call[1], call[2])
    \/ \E call \in SchedCalls : runs < MaxRuns /\ QueueTasksRaise(call[1], call[2])
    \/ Dispatch
    \/ DispatchFails
    \/ QueueTasksReturn
    \/ \E id \in TaskIds : Working /\ Fetches(id) < SchedFetch /\ GetTask(id)
    \/ \E id \in TaskIds, info \in Infos : Working /\ UpdateProgress(id, info)
    \/ \E id \in TaskIds, chunk_ids \in ChunkIdInputs :
          Working /\ UpdateChunkIds(id, chunk_ids)

Spec == Init /\ [][Next]_vars

\* Planning alone: queue_tasks over a wider range of documents, no worker
NextPlan ==
    \/ \E call \in PlanCalls : runs < MaxRuns /\ QueueTasksPersist(call[1], call[2])
    \/ \E call \in PlanCalls : runs < MaxRuns /\ QueueTasksRaise(call[1], call[2])
    \/ Dispatch
    \/ DispatchFails
    \/ QueueTasksReturn

SpecPlan == Init /\ [][NextPlan]_vars

\* Re-ingestion: queue_tasks on a 25 page PDF, the workers finishing or
\* failing units in between
NextRerun ==
    \/ \E call \in RerunCalls : runs < MaxRuns /\ QueueTasksPersist(call[1], call[2])
    \/ Dispatch
    \/ DispatchFails
    \/ QueueTasksReturn
    \/ \E id \in TaskIds, info \in Infos : Working /\ UpdateProgress(id, info)
    \/ \E id \in TaskIds, chunk_ids \in ChunkIdInputs :
          Working /\ UpdateChunkIds(id, chunk_ids)

SpecRerun == Init /\ [][NextRerun]_vars

\* Fetching: the workers call get_task on a unit up to MaxFetch times
NextFetch ==
    \/ \E call \in FetchCalls : runs < MaxRuns /\ QueueTasksPersist(call[1], call[2])
    \/ Dispatch
    \/ DispatchFails
    \/ QueueTasksReturn
    \/ \E id \in TaskIds : Fetches(id) < MaxFetch /\ GetTask(id)
    \/ \E id \in TaskIds, info \in Infos : UpdateProgress(id, info)
    \/ \E id \in TaskIds, chunk_ids \in ChunkIdInputs : UpdateChunkIds(id, chunk_ids)

SpecFetch == Init /\ [][NextFetch]_vars

\* The log: get_task and update_progress on the unit of a document, the
\* messages long enough to reach MsgMaxLen, the log up to MaxLines lines
NextLog ==
    \/ \E call \in FetchCalls : runs < MaxRuns /\ QueueTasksPersist(call[1], call[2])
    \/ Dispatch
    \/ DispatchFails
    \/ QueueTasksReturn
    \/ \E id \in TaskIds :
          /\ Fetches(id) < MaxFetch
          /\ Exists(id) => Len(tasks[RowOf(id)].progress_msg) < MaxLines
          /\ GetTask(id)
    \/ \E id \in TaskIds, info \in LogInfos :
          /\ Exists(id)
          /\ Len(tasks[RowOf(id)].progress_msg) < MaxLines
          /\ UpdateProgress(id, info)

SpecLog == Init /\ [][NextLog]_vars

\* Progress reports: two workers call update_progress on the unit of a
\* document, up to MaxReports calls in all, between queue_tasks calls
NextProgress ==
    \/ \E call \in FetchCalls : runs < MaxRuns /\ QueueTasksPersist(call[1], call[2])
    \/ Dispatch
    \/ DispatchFails
    \/ QueueTasksReturn
    \/ \E w \in Workers, id \in TaskIds, macos \in BOOLEAN :
          \E info \in WorkerInfos(w) :
              log.started < MaxReports /\ UpCall(w, id, info, macos)
    \/ \E w \in Workers : UpLock(w)
    \/ \E w \in Workers : UpRead(w)
    \/ \E w \in Workers : UpWrite(w)
    \/ \E w \in Workers : UpProgress(w)

SpecProgress == Init /\ [][NextProgress]_vars

\* Attempts: two workers call get_task on the unit of a document, up to
\* MaxWork calls in all, between queue_tasks calls
NextAttempts ==
    \/ \E call \in FetchCalls : runs < MaxRuns /\ QueueTasksPersist(call[1], call[2])
    \/ Dispatch
    \/ DispatchFails
    \/ QueueTasksReturn
    \/ \E w \in Workers, id \in TaskIds : log.started < MaxWork /\ GtRead(w, id)
    \/ \E w \in Workers : GtWrite(w)

SpecAttempts == Init /\ [][NextAttempts]_vars

\* The key/value calls of two clients on one key
NextKv ==
    \/ \E c \in Clients, v \in KvValues, outcome \in Outcomes : KvSet(c, v, outcome)
    \/ \E c \in Clients, outcome \in Outcomes : KvDelete(c, outcome)
    \/ \E c \in Clients, v \in KvValues, outcome \in Outcomes :
          KvDeleteIfEqual(c, v, outcome)

SpecKv == Init /\ [][NextKv]_vars

\* The lock: three processes compete for one lock_key
NextLock ==
    \/ \E p \in Procs, outcome \in Outcomes : AcquireStart(p, outcome)
    \/ \E p \in Procs : AcquireSets(p)
    \/ \E p \in Procs : AcquireFails(p)
    \/ \E p \in Procs : AcquireRaises(p)
    \/ \E p \in Procs, outcome \in Outcomes : SpinStart(p, outcome)
    \/ \E p \in Procs : SpinSets(p)
    \/ \E p \in Procs, kind \in {"False", "raised"} : SpinMisses(p, kind)
    \/ \E p \in Procs : SpinWakes(p)
    \/ \E p \in Procs, outcome \in Outcomes : Release(p, outcome)
    \/ Expire
    \/ \E p \in Procs : HoldTimeout(p)

SpecLock == Init /\ [][NextLock]_vars

\* Crash recovery: a holder that may stop while it holds the lock, and a
\* competitor
Holder == "p1"
Competitor == "p2"

CompetitorCalls ==
    \E outcome \in Outcomes :
        AcquireStart(Competitor, outcome) \/ SpinStart(Competitor, outcome)

NextCrash ==
    \/ \E p \in {Holder, Competitor}, outcome \in Outcomes : AcquireStart(p, outcome)
    \/ \E p \in {Holder, Competitor} : AcquireSets(p)
    \/ \E p \in {Holder, Competitor} : AcquireFails(p)
    \/ \E p \in {Holder, Competitor} : AcquireRaises(p)
    \/ \E p \in {Holder, Competitor}, outcome \in Outcomes : SpinStart(p, outcome)
    \/ \E p \in {Holder, Competitor} : SpinSets(p)
    \/ \E p \in {Holder, Competitor}, kind \in {"False", "raised"} : SpinMisses(p, kind)
    \/ \E p \in {Holder, Competitor} : SpinWakes(p)
    \/ \E p \in {Holder, Competitor}, outcome \in Outcomes : Release(p, outcome)
    \/ Expire
    \/ \E p \in {Holder, Competitor} : HoldTimeout(p)
    \/ Crash(Holder)

\* the expiry is reached; the competitor keeps calling acquire or
\* spin_acquire, its sleep ends, and its attempts do not fail for ever
SpecCrash ==
    /\ Init /\ [][NextCrash]_vars
    /\ WF_vars(Expire)
    /\ WF_vars(CompetitorCalls)
    /\ WF_vars(SpinWakes(Competitor))
    /\ SF_vars(AcquireSets(Competitor))
    /\ SF_vars(SpinSets(Competitor))

\* Cluster redirects: one operation after another on the broker client
NextCluster ==
    \/ \E op \in ClusterOps, is_cluster \in BOOLEAN : ClCall(op, is_cluster)
    \/ ClAttemptOk
    \/ \E sl \in Slots, node \in Nodes : ClAttemptMoved(sl, node)
    \/ ClAttemptFails

SpecCluster == Init /\ [][NextCluster]_vars

\* The key/value operations, one after another, in either mode
NextOps ==
    \/ \E op \in KvOps, is_cluster \in BOOLEAN : ClCall(op, is_cluster)
    \/ ClAttemptOk
    \/ \E sl \in Slots, node \in Nodes : ClAttemptMoved(sl, node)
    \/ ClAttemptFails

SpecOps == Init /\ [][NextOps]_vars

\* Consuming: entries are produced on two streams and two consumers of one
\* group call queue_consumer
NextConsume ==
    \/ \E q \in StreamNames : Produce(q)
    \/ \E q \in StreamNames, c \in Consumers, failing \in ConsumeFailures,
          lost \in BOOLEAN : Consume(q, c, failing, lost)

\* the consumers keep calling queue_consumer on each stream, and not every
\* call fails
SpecConsume ==
    /\ Init /\ [][NextConsume]_vars
    /\ \A q \in StreamNames :
          WF_vars(\E c \in Consumers : Consume(q, c, "none", FALSE))

\* Requeueing: pending entries of a stream are requeued, in either mode
NextRequeue ==
    \/ Produce("q1")
    \/ \E c \in Consumers, failing \in ConsumeFailures, lost \in BOOLEAN :
          Consume("q1", c, failing, lost)
    \/ \E id \in 1..MaxEntries, is_cluster \in BOOLEAN : RqCall("q1", id, is_cluster)
    \/ \E outcome \in Outcomes : RqStep(outcome)

SpecRequeue == Init /\ [][NextRequeue]_vars

\* Recovery: a consumer reads entries of two streams and then iterates over
\* what is pending for it
NextIter ==
    \/ \E q \in StreamNames : Produce(q)
    \/ \E q \in StreamNames : Consume(q, "c1", "none", FALSE)
    \/ \E is_cluster \in BOOLEAN : IterStart("c1", is_cluster)
    \/ \E reply \in {"ok", "moved", "error"}, sl \in Slots, node \in Nodes :
          IterQuery(reply, sl, node)
    \/ \E outcome \in {"ok", "fails"} : IterRead(outcome)

SpecIter == Init /\ [][NextIter]_vars

\* Slot computation: _get_key_slot called on one key after another
NextSlot ==
    \/ \E key \in SlotKeys : GetKeySlotCall(key)
    \/ GetKeySlotByte
    \/ GetKeySlotReturn

SpecSlot == Init /\ [][NextSlot]_vars

-----------------------------------------------------------------------------
(* Properties *)

\* queue_tasks was called and went through planning
Planned == qt.pc \in {"dispatch", "returned", "raised"} /\ qt.doc.type # None

\* the call planned a PDF over the default page range
DefaultRangePdf ==
    /\ Planned
    /\ qt.doc.type = PDF
    /\ "pages" \notin DOMAIN qt.doc.parser_config
    /\ qt.doc.pages >= 1

\* the units are [k*s, min((k+1)*s, P)) for k = 0 .. ceil(P/s) - 1
UnitsSlice(units, P, s) ==
    LET n == (P + s - 1) \div s
    IN  /\ Len(units) = n
        /\ \A k \in 1..n :
              /\ units[k].from_page = (k - 1) * s
              /\ units[k].to_page = Min(k * s, P)
              /\ units[k].from_page < units[k].to_page
        /\ \A k \in 1..(n - 1) : units[k].to_page = units[k + 1].from_page
        /\ units[1].from_page = 0
        /\ units[n].to_page = P

\* C3: for a PDF of P >= 1 pages, the default page range and page size s,
\* queue_tasks plans exactly ceil(P/s) units [k*s, min((k+1)*s, P)): non-empty,
\* disjoint, in increasing order, covering [0, P).
C3_UnitsCoverEveryPage ==
    DefaultRangePdf => UnitsSlice(qt.parse_task_array, qt.doc.pages, PageSize(qt.doc))

\* C3 within the default page range: the same for 1 <= P <= 99999
C3_UnitsCoverPagesBelowRangeEnd ==
    DefaultRangePdf /\ qt.doc.pages < DefaultPageRangeEnd
        => UnitsSlice(qt.parse_task_array, qt.doc.pages, PageSize(qt.doc))

\* C3: the 25 pages at 12 a unit were planned as [0,12) [12,24) [24,25)
C3_Planned25By12 ==
    /\ DefaultRangePdf
    /\ qt.doc.pages = 25
    /\ PageSize(qt.doc) = 12
    /\ [k \in 1..Len(qt.parse_task_array) |->
           <<qt.parse_task_array[k].from_page, qt.parse_task_array[k].to_page>>]
         = << <<0, 12>>, <<12, 24>>, <<24, 25>> >>

\* the rows the call found all had progress 1.0
AllPriorDone ==
    \A j \in 1..Len(qt.prev_tasks) : qt.prev_tasks[j].progress = ProgressDone

\* the <<from, to>> of the units queue_tasks plans for a document
Boundaries(doc) ==
    LET planned == parse_task_array(doc)
    IN  [k \in 1..Len(planned) |-> <<planned[k].from_page, planned[k].to_page>>]

\* the call re-runs a document whose configuration and unit boundaries are
\* those of the run that wrote the rows it found
IdenticalRerun ==
    /\ Planned
    /\ qt.prev_tasks # <<>>
    /\ ChunkingConfig(qt.doc) = ChunkingConfig(qt.prev_doc)
    /\ Boundaries(qt.doc) = Boundaries(qt.prev_doc)

\* every new unit is done and carries the chunk ids of a prior record with
\* its from and digest, and the call has published nothing
ReusedAll ==
    /\ \A k \in 1..Len(qt.parse_task_array) :
          LET unit == qt.parse_task_array[k]
          IN  /\ unit.progress = ProgressDone
              /\ \E j \in 1..Len(qt.prev_tasks) :
                    /\ qt.prev_tasks[j].from_page = unit.from_page
                    /\ qt.prev_tasks[j].digest = unit.digest
                    /\ qt.prev_tasks[j].chunk_ids = unit.chunk_ids
    /\ streams = qt.streams0

\* C1 as stated: an identical re-run over prior records that all have
\* progress 1.0 reuses every prior unit and publishes nothing.
C1_RerunReusesAll == IdenticalRerun /\ AllPriorDone => ReusedAll

\* the prior records hold chunk ids and start at pairwise distinct pages
PriorChunksDistinctFrom ==
    /\ \A j \in 1..Len(qt.prev_tasks) : qt.prev_tasks[j].chunk_ids # <<>>
    /\ \A i, j \in 1..Len(qt.prev_tasks) :
          i # j => qt.prev_tasks[i].from_page # qt.prev_tasks[j].from_page

\* C1 amended: an identical re-run over prior records that all have progress
\* 1.0 and non-empty chunk_ids, no two of them with the same from, reuses
\* every prior unit and publishes nothing.
C1_RerunReusesAllWithChunks ==
    IdenticalRerun /\ AllPriorDone /\ PriorChunksDistinctFrom => ReusedAll

\* C1: an identical re-run of a two unit document has reused both units
C1_ReusedTwoUnits ==
    /\ IdenticalRerun /\ AllPriorDone /\ PriorChunksDistinctFrom
    /\ qt.pc = "returned"
    /\ Len(qt.parse_task_array) = 2
    /\ ReusedAll

\* C10 as stated: every task record with progress 1.0 has non-empty chunk_ids.
C10_DoneHasChunkIds ==
    \A i \in 1..Len(tasks) :
        tasks[i].progress = ProgressDone => tasks[i].chunk_ids # <<>>

\* C10 amended: a record with progress 1.0 and empty chunk_ids is never
\* written by queue_tasks or get_task: where a step leaves such a record, the
\* record was there before the step with the same retry_count, that is, the
\* step is an update_progress or an update_chunk_ids on it.
C10_DoneWithoutChunkIdsOnlyByUpdate ==
    [][\A i \in 1..Len(tasks') :
          tasks'[i].progress = ProgressDone /\ tasks'[i].chunk_ids = <<>>
              => \E j \in 1..Len(tasks) :
                    /\ tasks[j].id = tasks'[i].id
                    /\ tasks[j].retry_count = tasks'[i].retry_count]_vars

\* C10: queue_tasks found a record with progress 1.0 and no chunk ids and
\* another that it reused
C10_ReusedBesideDoneWithoutChunkIds ==
    /\ Planned
    /\ \E j \in 1..Len(qt.prev_tasks) :
          qt.prev_tasks[j].progress = ProgressDone /\ qt.prev_tasks[j].chunk_ids = <<>>
    /\ \E k \in 1..Len(qt.parse_task_array) :
          /\ qt.parse_task_array[k].progress = ProgressDone
          /\ qt.parse_task_array[k].chunk_ids # <<>>

\* the messages the latest queue_tasks call appended to a stream
NewMessages(queue) ==
    SubSeq(streams[queue], Len(qt.streams0[queue]) + 1, Len(streams[queue]))

\* where the call published a unit: <<queue, index among the new messages>>
PublishedAt(unit) ==
    {qi \in UNION {{<<queue, i>> : i \in 1..Len(NewMessages(queue))} :
                      queue \in QueueNames} :
        NewMessages(qi[1])[qi[2]].id = unit.id}

Relevant(parser_config) == (DOMAIN parser_config) \ {"raptor", "graphrag"}

\* a digested field of the configuration differs from the prior run's
DigestedFieldDiffers ==
    /\ Planned
    /\ qt.prev_tasks # <<>>
    /\ \/ qt.doc.embd_id # qt.prev_doc.embd_id
       \/ qt.doc.parser_id # qt.prev_doc.parser_id
       \/ Relevant(qt.doc.parser_config) # Relevant(qt.prev_doc.parser_config)
       \/ \E key \in Relevant(qt.doc.parser_config) :
             qt.doc.parser_config[key] # qt.prev_doc.parser_config[key]

\* C2: when a digested configuration field differs from the prior run's,
\* queue_tasks reuses nothing whatever the prior progress: every new unit
\* keeps progress 0.0 and no chunk_ids, and is published by the time the call
\* returns.
C2_ChangedConfigReusesNothing ==
    DigestedFieldDiffers =>
        \A k \in 1..Len(qt.parse_task_array) :
            LET unit == qt.parse_task_array[k]
            IN  /\ unit.progress = 0
                /\ unit.chunk_ids = <<>>
                /\ qt.pc = "returned" => Cardinality(PublishedAt(unit)) = 1

\* C2: the 25 pages re-ingested at 10 a unit after a finished run at 12 a
\* unit: [0,10) [10,20) [20,25), nothing reused, all published
C2_Reingested25By10After12 ==
    /\ DigestedFieldDiffers
    /\ qt.pc = "returned"
    /\ AllPriorDone
    /\ \A j \in 1..Len(qt.prev_tasks) : qt.prev_tasks[j].chunk_ids # <<>>
    /\ qt.prev_doc.pages = 25 /\ PageSize(qt.prev_doc) = 12
    /\ qt.doc.pages = 25 /\ PageSize(qt.doc) = 10
    /\ Boundaries(qt.doc) = << <<0, 10>>, <<10, 20>>, <<20, 25>> >>
    /\ \A k \in 1..Len(qt.parse_task_array) :
          /\ qt.parse_task_array[k].progress = 0
          /\ PublishedAt(qt.parse_task_array[k]) # {}

\* C4: retry_count counts the get_task calls on a unit created with
\* retry_count 0. Calls 1 to 3 return the unit; call 4 and every later call
\* return absence and leave the unit with progress -1.
C4_FourthFetchAbandons ==
    [][\A i \in 1..Len(tasks) :
          /\ Len(tasks') = Len(tasks)
          /\ tasks'[i].id = tasks[i].id
          /\ tasks'[i].retry_count = tasks[i].retry_count + 1
          => LET nth == tasks'[i].retry_count
             IN  /\ ret'.op = "get_task"
                 /\ ret'.id = tasks[i].id
                 /\ nth <= 3 => ret'.value = "task"
                 /\ nth >= 4 => /\ ret'.value = None
                                /\ tasks'[i].progress = ProgressFailed]_vars

\* C4: the unit was fetched five times; the last call returned absence and
\* left it failed
C4_FetchedFiveTimes ==
    /\ ret.op = "get_task"
    /\ ret.value = None
    /\ \E i \in 1..Len(tasks) :
          /\ tasks[i].id = ret.id
          /\ tasks[i].retry_count = 5
          /\ tasks[i].progress = ProgressFailed

\* C5: a delete_if_equal call leaves the value under the key as it was or
\* deletes the key, and deletes it only when the value was the expected one;
\* it never writes a value; it returns true only when it deleted the key.
C5_DeletesOnlyTheExpectedValue ==
    [][last'.op = "delete_if_equal" /\ last'.seq # last.seq
          => /\ kv' \in {kv, None}
             /\ kv' # kv => kv = last'.arg
             /\ last'.result = "True" => kv = last'.arg /\ kv # None /\ kv' = None]_vars

\* C5: a delete_if_equal by the second client has just deleted the key
C5_DeletedAnothersValue ==
    /\ last.op = "delete_if_equal"
    /\ last.by = "c2"
    /\ last.result = "True"
    /\ kv = None

\* C6 as stated: at most one process at a time is a holder, a holder being a
\* process whose acquire returned true, which has not released since and
\* whose hold timeout has not elapsed.
C6_OneHolder == Cardinality({p \in Procs : held[p] # "no"}) <= 1

\* C6 amended: at most one process at a time is a holder, a holder being a
\* process whose acquire or spin_acquire set the key, which has neither
\* released nor called acquire or spin_acquire again since, and whose hold
\* timeout has not elapsed; the key holds the holder's token.
C6_OneHolderNotReentered ==
    /\ Cardinality({p \in Procs : held[p] = "yes"}) <= 1
    /\ \A p \in Procs : held[p] = "yes" => kv = lock_value(p)

\* C6: one process holds the lock while another is in acquire and the third
\* in spin_acquire
C6_HeldUnderCompetition ==
    \E p, q, r \in Procs :
        /\ held[p] = "yes" /\ lk[p] = "idle"
        /\ lk[q] = "acquire"
        /\ lk[r] = "spin"

\* a step is a release by p
ReleaseBy(p) == last'.seq # last.seq /\ last'.via = "release" /\ last'.by = p

\* C7 as stated: release by a process whose token is not the value under the
\* key leaves the key as it is; release by the holder deletes the key.
C7_ReleaseDeletesOwnKeyOnly ==
    [][\A p \in Procs : ReleaseBy(p) =>
          /\ kv # lock_value(p) => kv' = kv
          /\ kv = lock_value(p) /\ held[p] = "yes" => kv' = None]_vars

\* C7 amended: release by a process whose token is not the value under the
\* key leaves the key as it is; release by the holder deletes the key when
\* its compare-and-delete runs at the broker, and leaves the key as it is
\* when the call fails before that.
C7_ReleaseDeletesOwnKeyIfReached ==
    [][\A p \in Procs : ReleaseBy(p) =>
          /\ kv # lock_value(p) => kv' = kv
          /\ kv = lock_value(p) /\ last'.outcome # "unreached" => kv' = None
          /\ kv = lock_value(p) /\ last'.outcome = "unreached" => kv' = kv]_vars

\* C7: a process has just released while the key held another holder's token
C7_ReleasedAnothersLock ==
    /\ last.via = "release"
    /\ last.outcome = "ok"
    /\ kv # None
    /\ kv # lock_value(last.by)
    /\ \E p \in Procs : held[p] = "yes" /\ kv = lock_value(p)

\* the bits of a byte, most significant first
ByteBits(byte) == [k \in 1..8 |-> (byte \div (2 ^ (8 - k))) % 2]

\* long division by x^16 + x^12 + x^5 + 1 over GF(2): bring the next
\* coefficient down and subtract the divisor when degree 16 is reached
Divide(r, bit) ==
    IF 2 * r + bit >= 65536 THEN BitXor(2 * r + bit, 69665) ELSE 2 * r + bit

\* the eight coefficients of a byte brought down, highest degree first
DivideByte(r, byte) ==
    LET b == ByteBits(byte)
    IN  Divide(Divide(Divide(Divide(
            Divide(Divide(Divide(Divide(r, b[1]), b[2]), b[3]), b[4]),
            b[5]), b[6]), b[7]), b[8])

\* the remainder of the message times x^16 (the message followed by two zero
\* bytes) once its first k bytes are brought down
RECURSIVE PolyRem(_, _)
PolyRem(data, k) ==
    IF k = 0 THEN 0
    ELSE DivideByte(PolyRem(data, k - 1), IF k > Len(data) THEN 0 ELSE data[k])

\* the 16-bit CRC with polynomial 0x1021 and initial value 0
Crc16(data) == PolyRem(data, Len(data) + 2)

\* C8: the slot _get_key_slot returns is the 16-bit CRC (polynomial 0x1021,
\* initial value 0) of the key's bytes modulo 16384, lies in 0..16383, and is
\* the slot the previous call returned when that call had the same key; the
\* register stays within 16 bits throughout.
C8_SlotIsCrc16Mod16384 ==
    /\ slot.crc \in 0..65535
    /\ slot.pc = "returned" =>
          /\ slot.result = Crc16(KeyBytes(slot.key)) % 16384
          /\ slot.result \in 0..16383
          /\ slot.prev_key = slot.key /\ slot.prev_key # Str(<<>>)
                => slot.prev_result = slot.result

\* C8: the slot of "123456789" is 0x31C3, twice in a row
C8_SlotOf123456789 ==
    /\ slot.pc = "returned"
    /\ slot.key = Str(<<49, 50, 51, 52, 53, 54, 55, 56, 57>>)
    /\ slot.prev_key = slot.key
    /\ slot.result = 12739
    /\ slot.prev_result = 12739

\* a step is a get_task call on row i
FetchOf(i) ==
    /\ Len(tasks') = Len(tasks)
    /\ tasks'[i].id = tasks[i].id
    /\ tasks'[i].retry_count = tasks[i].retry_count + 1

\* C11 as stated: once a record's progress is negative, no get_task call
\* makes it non-negative again or returns the unit.
C11_NegativeProgressIsTerminal ==
    [][\A i \in 1..Len(tasks) :
          FetchOf(i) /\ tasks[i].progress < 0
              => tasks'[i].progress < 0 /\ ret'.value = None]_vars

\* C11 amended: a record with negative progress is terminal once it was
\* fetched 3 times: get_task then leaves its progress at -1 and returns
\* absence. While it was fetched fewer than 3 times, get_task sets its
\* progress to a value in [0, 0.1) and returns the unit.
C11_NegativeProgressIsTerminalAfterThree ==
    [][\A i \in 1..Len(tasks) :
          FetchOf(i) /\ tasks[i].progress < 0
              => IF tasks[i].retry_count >= 3
                 THEN tasks'[i].progress = ProgressFailed /\ ret'.value = None
                 ELSE tasks'[i].progress \in 0..9 /\ ret'.value = "task"]_vars

\* C11: a unit that had failed was fetched for the third time and handed out
C11_FailedUnitHandedOut ==
    /\ ret.op = "get_task"
    /\ ret.before = ProgressFailed
    /\ ret.value = "task"
    /\ \E i \in 1..Len(tasks) :
          /\ tasks[i].id = ret.id
          /\ tasks[i].retry_count = 3
          /\ tasks[i].progress >= 0

\* C12: when the publish of an unfinished unit fails, queue_tasks ends with an
\* error, never a normal return, and none of the units after the failed one
\* is published by the call.
C12_FailedPublishEndsCall ==
    qt.failed # 0 =>
        /\ qt.pc = "raised"
        /\ \A k \in 1..Len(Unfinished(qt.parse_task_array)) :
              k > qt.failed => PublishedAt(Unfinished(qt.parse_task_array)[k]) = {}

\* C12: the publish of the first of two unfinished units failed
C12_FirstOfTwoFailed ==
    /\ qt.failed = 1
    /\ qt.pc = "raised"
    /\ Len(Unfinished(qt.parse_task_array)) = 2

\* a record's message is on one of the streams
OnAStream(id) ==
    \E queue \in QueueNames : \E j \in 1..Len(streams[queue]) :
        streams[queue][j].id = id

\* C13 as stated: after a queue_tasks call that failed at dispatch there is no
\* task record with progress below 1.0 whose message was not published.
C13_NoUnitPersistedUnpublished ==
    qt.failed # 0 =>
        \A i \in 1..Len(tasks) :
            tasks[i].progress < ProgressDone => OnAStream(tasks[i].id)

\* C13: the second publish failed: the first unit is on its stream, the
\* second is a record with progress 0.0 and no message, and the document is
\* marked as running
C13_SecondUnitPersistedUnpublished ==
    /\ qt.failed = 2
    /\ document.run = "RUNNING"
    /\ Len(tasks) = 2
    /\ OnAStream(tasks[1].id)
    /\ tasks[2].progress = 0 /\ ~OnAStream(tasks[2].id)

\* the call planned a PDF whose parser is "mineru"
MineruPdf == Planned /\ qt.doc.type = PDF /\ qt.doc.parser_id = "mineru"

\* C16 as stated: for a PDF whose parser is "mineru", queue_tasks creates
\* exactly one unit, covering [0, total_pages), whatever the page count and
\* the page size.
C16_MineruPdfIsOneUnit ==
    MineruPdf =>
        /\ Len(qt.parse_task_array) = 1
        /\ qt.parse_task_array[1].from_page = 0
        /\ qt.parse_task_array[1].to_page = qt.doc.pages

\* C16: the 25 pages of a "mineru" PDF were planned as [0,12) [12,24) [24,25)
C16_MineruPdfPlannedByPageSize ==
    /\ MineruPdf
    /\ qt.doc.pages = 25
    /\ Boundaries(qt.doc) = << <<0, 12>>, <<12, 24>>, <<24, 25>> >>
    /\ Len(qt.parse_task_array) = 3

\* the call went through the persistence swap
Persisted == qt.pc \in {"dispatch", "returned"} \/ qt.failed # 0

\* the chunk ids carried by the units marked as reused, counted
ReusedChunkCount(units) ==
    SumSeq([k \in 1..Len(units) |->
               IF units[k].progress = ProgressDone THEN Len(units[k].chunk_ids) ELSE 0])

\* C17: after queue_tasks the document's chunk_num is the sum, over the new
\* units marked as reused, of the number of chunk ids each carries; it is 0
\* when the document had no prior task record or nothing is reused.
C17_ChunkNumIsReusedSum ==
    Persisted =>
        /\ document.chunk_num = ReusedChunkCount(qt.parse_task_array)
        /\ qt.prev_tasks = <<>> => document.chunk_num = 0
        /\ (\A k \in 1..Len(qt.parse_task_array) :
                qt.parse_task_array[k].progress < ProgressDone)
              => document.chunk_num = 0

\* C17: one of two units was reused with its two chunk ids, the other was
\* not: chunk_num is 2
C17_CountedOneReusedOfTwo ==
    /\ qt.pc = "returned"
    /\ Len(qt.parse_task_array) = 2
    /\ \E k \in 1..2 : qt.parse_task_array[k].progress < ProgressDone
    /\ \E k \in 1..2 : /\ qt.parse_task_array[k].progress = ProgressDone
                        /\ Len(qt.parse_task_array[k].chunk_ids) = 2
    /\ document.chunk_num = 2

\* the prior records, in the order get_tasks returned them, whose from and
\* digest are the unit's
Matches(unit) ==
    {j \in 1..Len(qt.prev_tasks) :
        /\ qt.prev_tasks[j].from_page = unit.from_page
        /\ qt.prev_tasks[j].digest = unit.digest}

\* the first of them; 0 when there is none
FirstMatch(unit) ==
    IF Matches(unit) = {} THEN 0
    ELSE CHOOSE j \in Matches(unit) : \A h \in Matches(unit) : j <= h

\* an earlier unit of the call, with the same from and digest, was reused: it
\* cleared the chunk_ids of the record both match first
ConsumedBefore(k) ==
    \E k2 \in 1..(k - 1) :
        /\ qt.parse_task_array[k2].from_page = qt.parse_task_array[k].from_page
        /\ qt.parse_task_array[k2].digest = qt.parse_task_array[k].digest
        /\ qt.parse_task_array[k2].progress = ProgressDone

\* C19: a new unit is marked as reused (progress 1.0, chunk_ids copied, the
\* prior record's chunk_ids cleared) if and only if the first prior record,
\* in the order of get_tasks, with its from and digest has progress 1.0 and
\* non-empty chunk_ids when the unit is considered; otherwise the unit keeps
\* progress 0.0 and no chunk_ids, and no record but a first match is touched.
C19_ReusedIffFirstMatchDone ==
    Persisted =>
        /\ \A k \in 1..Len(qt.parse_task_array) :
              LET unit == qt.parse_task_array[k]
                  j == FirstMatch(unit)
              IN  IF /\ j # 0
                     /\ qt.prev_tasks[j].progress = ProgressDone
                     /\ qt.prev_tasks[j].chunk_ids # <<>>
                     /\ ~ConsumedBefore(k)
                  THEN /\ unit.progress = ProgressDone
                       /\ unit.chunk_ids = qt.prev_tasks[j].chunk_ids
                       /\ qt.prev_after[j].chunk_ids = <<>>
                  ELSE unit.progress = 0 /\ unit.chunk_ids = <<>>
        /\ \A j \in 1..Len(qt.prev_tasks) :
              qt.prev_after[j] # qt.prev_tasks[j]
                  => \E k \in 1..Len(qt.parse_task_array) :
                        /\ FirstMatch(qt.parse_task_array[k]) = j
                        /\ qt.parse_task_array[k].progress = ProgressDone

\* C19: a unit matched two prior records; the first was failed, the second
\* done with chunk ids; the unit was not reused
C19_LaterMatchNotConsulted ==
    /\ qt.pc = "returned"
    /\ \E k \in 1..Len(qt.parse_task_array) :
          LET unit == qt.parse_task_array[k]
          IN  /\ unit.progress = 0
              /\ ~ConsumedBefore(k)
              /\ \E j1, j2 \in Matches(unit) :
                    /\ j1 = FirstMatch(unit) /\ j1 < j2
                    /\ qt.prev_tasks[j1].progress = ProgressFailed
                    /\ qt.prev_tasks[j2].progress = ProgressDone
                    /\ qt.prev_tasks[j2].chunk_ids # <<>>

\* the chunk ids the prior records held when the call read them
PriorIds == UNION {SeqToSet(qt.prev_tasks[j].chunk_ids) : j \in 1..Len(qt.prev_tasks)}

\* the new units that carry an id
CarriedBy(id) ==
    {k \in 1..Len(qt.parse_task_array) : id \in SeqToSet(qt.parse_task_array[k].chunk_ids)}

\* C20 as stated: every chunk id held by the prior records is either carried
\* forward onto exactly one new unit or in the delete request sent to the
\* index store, never both and never neither.
C20_PriorIdsCarriedOrDeleted ==
    Persisted =>
        \A id \in PriorIds :
            \/ Cardinality(CarriedBy(id)) = 1 /\ id \notin SeqToSet(qt.deleted)
            \/ CarriedBy(id) = {} /\ id \in SeqToSet(qt.deleted)

\* C20: an id carried by exactly one new unit, marked as done, is in the
\* delete request of the same call
C20_DeletedACarriedId ==
    /\ qt.pc = "returned"
    /\ \E id \in PriorIds :
          /\ Cardinality(CarriedBy(id)) = 1
          /\ \A k \in CarriedBy(id) : qt.parse_task_array[k].progress = ProgressDone
          /\ id \in SeqToSet(qt.deleted)
          /\ id \in docStore

\* the lines of a text that have a given length
LinesOf(text, m) == Cardinality({k \in 1..Len(text) : text[k] = m})

\* every line update_progress wrote on the record is in its progress_msg
KeepsLines(i) ==
    \A w \in Workers :
        LinesOf(tasks[i].progress_msg, MsgOf(w))
            >= Count(log.appended, <<tasks[i].id, MsgOf(w)>>)

\* C14 as stated: in every execution environment, under every interleaving
\* of the update_progress calls of two workers on a unit, no appended line is
\* lost.
C14_NoLineLost == \A i \in 1..Len(tasks) : KeepsLines(i)

\* C14 amended: when every update_progress call on a unit is made without
\* MACOS in the environment, the calls run one at a time under the lock and
\* no appended line is lost, under every interleaving.
C14_NoLineLostUnderLock ==
    /\ \A i \in 1..Len(tasks) : tasks[i].id \notin log.unlocked => KeepsLines(i)
    /\ Cardinality({w \in Workers :
                       wk[w].locked /\ wk[w].pc \in {"up_body", "up_write", "up_progress"}})
          <= 1

\* C14: a worker has written its line under the lock, after the other
\* worker's, while the other waits for the lock again; both lines are there
C14_BothLinesUnderLock ==
    /\ wk["w1"].pc = "up_progress" /\ wk["w1"].locked
    /\ wk["w2"].pc = "up_lock"
    /\ wk["w1"].id = wk["w2"].id
    /\ log.unlocked = {}
    /\ \E i \in 1..Len(tasks) :
          /\ tasks[i].id = wk["w1"].id
          /\ LinesOf(tasks[i].progress_msg, MsgOf("w1")) = 1
          /\ LinesOf(tasks[i].progress_msg, MsgOf("w2")) = 1

\* no get_task call on the task is between its select and its update
NoFetchInFlight(id) == \A w \in Workers : ~(wk[w].pc = "gt_write" /\ wk[w].id = id)

\* C18 as stated: under every interleaving of the get_task calls of the
\* workers on a unit, the unit is handed out at most 3 times, and retry_count
\* equals the number of get_task calls made for it.
C18_HandedOutAtMostThrice ==
    \A i \in 1..Len(tasks) :
        /\ Count(log.handed, tasks[i].id) <= 3
        /\ NoFetchInFlight(tasks[i].id)
              => tasks[i].retry_count = Count(log.calls, tasks[i].id)

\* C18: four get_task calls were made for a unit and all four returned it;
\* its retry_count is 3
C18_HandedOutFourTimes ==
    \E i \in 1..Len(tasks) :
        /\ Count(log.calls, tasks[i].id) = 4
        /\ Count(log.handed, tasks[i].id) = 4
        /\ NoFetchInFlight(tasks[i].id)
        /\ tasks[i].retry_count = 3
        /\ tasks[i].progress >= 0

\* in cluster mode, every run of the operation so far was answered with a
\* redirect
AllMoved == cl.is_cluster /\ cl.all_moved /\ cl.sent > 0

\* C15 as stated: in cluster mode, an operation whose attempts are each
\* answered with a redirect is attempted at most 3 times in all, the cache
\* holds the node of each redirect under the slot it names, and when the
\* third attempt fails the error reaches the caller of the operation.
C15_ThreeAttemptsThenRaises ==
    /\ AllMoved => cl.sent <= 3
    /\ AllMoved => cl.cluster_slot_cache[cl.reply.slot] = cl.reply.node
    /\ AllMoved /\ cl.pc = "done" => cl.result = "raised"

\* C15 amended: in cluster mode the redirect handler runs the operation at
\* most 3 times per invocation; a redirect answered to the first or second
\* attempt updates the cache entry of the slot it names, one answered to the
\* third leaves the cache as it is and the handler raises. No operation
\* passes the error on: queue_product invokes the handler up to 3 times, at
\* most 9 attempts, and returns False; get returns None after 3 attempts.
C15_ThreeAttemptsPerHandlerCall ==
    /\ cl.attempt \in 0..2
    /\ cl.round \in 1..3
    /\ cl.op = "get" => cl.round = 1
    /\ cl.is_cluster => cl.sent <= 3 * cl.round
    /\ cl.is_cluster /\ cl.pc = "attempt" => cl.sent = 3 * (cl.round - 1) + cl.attempt
    /\ cl.is_cluster /\ cl.reply.kind = "moved" =>
          IF cl.reply.attempt < 2
          THEN /\ cl.cluster_slot_cache[cl.reply.slot] = cl.reply.node
               /\ \A sl \in Slots \ {cl.reply.slot} :
                     cl.cluster_slot_cache[sl] = cl.cache_before[sl]
          ELSE cl.cluster_slot_cache = cl.cache_before
    /\ cl.result # "raised"
    /\ AllMoved /\ cl.pc = "done" =>
          IF cl.op = "queue_product"
          THEN cl.sent = 9 /\ cl.result = "False"
          ELSE cl.sent = 3 /\ cl.result = "None"

\* C15: queue_product has returned False after nine attempts, each answered
\* with a redirect; the last redirect is not in the cache
C15_ProductGaveUpAfterNine ==
    /\ AllMoved
    /\ cl.pc = "done"
    /\ cl.op = "queue_product"
    /\ cl.sent = 9
    /\ cl.result = "False"
    /\ cl.cluster_slot_cache[cl.reply.slot] # cl.reply.node

-----------------------------------------------------------------------------
(* C21: the length of progress_msg *)

\* the step is an update_progress call that wrote a message to row i
WroteMsg(i) ==
    /\ i \in 1..Len(tasks) /\ i \in 1..Len(tasks')
    /\ tasks'[i].id = tasks[i].id
    /\ tasks'[i].retry_count = tasks[i].retry_count
    /\ tasks'[i].progress_msg # tasks[i].progress_msg

\* text is a suffix of whole that starts at the beginning of one of its lines
LineSuffix(text, whole) ==
    \E k \in 0..Len(whole) : text = SubSeq(whole, k + 1, Len(whole))

-----------------------------------------------------------------------------
(* C22: update_progress with a progress and no message *)

\* C22 as stated: update_progress called with a progress and no progress_msg
\* writes the progress of the unit and leaves its progress_msg as it was.
C22_ProgressAloneIsWritten ==
    [][(ret' # ret /\ ret'.op = "update_progress"
            /\ "progress_msg" \notin DOMAIN ret'.info)
          => /\ Exists(ret'.id)
             /\ tasks'[RowOf(ret'.id)].progress = ret'.info.progress
             /\ tasks'[RowOf(ret'.id)].progress_msg
                    = tasks[RowOf(ret'.id)].progress_msg]_vars

\* update_progress was called with a progress alone, raised, and the unit
\* keeps another progress
C22_ProgressAloneRaised ==
    /\ ret.op = "update_progress"
    /\ ret.value = "KeyError"
    /\ Exists(ret.id)
    /\ tasks[RowOf(ret.id)].progress # ret.info.progress

-----------------------------------------------------------------------------
(* C28: the digest leaves raptor and graphrag out *)

\* the parser_config keys that go into the digest, in the order held
RemainingKeys(doc) ==
    LET Kept(k) == k \notin Undigested
    IN  SelectSeq(doc.key_order, Kept)

\* the raptor and graphrag entries of the parser_config
UndigestedEntries(doc) ==
    [k \in (DOMAIN doc.parser_config) \cap Undigested |-> doc.parser_config[k]]

\* the call re-runs a document whose configuration differs from the prior
\* run's in the raptor and graphrag entries and in nothing else
DiffersInUndigestedOnly ==
    /\ Planned
    /\ qt.prev_tasks # <<>>
    /\ qt.doc.embd_id = qt.prev_doc.embd_id
    /\ qt.doc.parser_id = qt.prev_doc.parser_id
    /\ RemainingKeys(qt.doc) = RemainingKeys(qt.prev_doc)
    /\ \A key \in Relevant(qt.doc.parser_config) :
           qt.doc.parser_config[key] = qt.prev_doc.parser_config[key]
    /\ UndigestedEntries(qt.doc) # UndigestedEntries(qt.prev_doc)

\* C28: when the configuration of a run differs from the prior run's only in
\* the raptor and graphrag entries of parser_config, every new unit has the
\* digest of the prior records with its from and to, and when the prior
\* records are all done, with chunk ids and distinct froms, every unit is
\* reused and nothing is published.
C28_UndigestedEntriesIgnored ==
    DiffersInUndigestedOnly =>
        /\ \A k \in 1..Len(qt.parse_task_array), j \in 1..Len(qt.prev_tasks) :
               (/\ qt.prev_tasks[j].from_page = qt.parse_task_array[k].from_page
                /\ qt.prev_tasks[j].to_page = qt.parse_task_array[k].to_page)
               => qt.prev_tasks[j].digest = qt.parse_task_array[k].digest
        /\ (AllPriorDone /\ PriorChunksDistinctFrom) => ReusedAll

\* a run with graphrag set (or unset) after a finished run without (with) it
\* has reused all three units of the 25 pages
C28_ReusedAcrossGraphrag ==
    /\ DiffersInUndigestedOnly
    /\ AllPriorDone /\ PriorChunksDistinctFrom
    /\ qt.pc = "returned"
    /\ Len(qt.parse_task_array) = 3
    /\ ReusedAll

-----------------------------------------------------------------------------
(* C26: the loop of spin_acquire *)

\* the step is an attempt of the spin_acquire of p to set the key
SpinAttempt(p) ==
    /\ last' # last
    /\ last'.by = p /\ last'.via = "spin_acquire" /\ last'.op = "set_nx"

\* C26: spin_acquire returns from an attempt only when the attempt set the
\* key to the caller's token; after any other attempt, one that raised
\* included, it is at its sleep, from which alone it comes to the next
\* attempt; an attempt made while the key holds another token does not return.
C26_SpinSleepsBetweenAttempts ==
    [][\A p \in Procs :
          /\ SpinAttempt(p) =>
                /\ lk[p] = "spin"
                /\ \/ lk'[p] = "idle" /\ kv = None /\ kv' = lock_value(p)
                   \/ lk'[p] = "sleep" /\ kv' = kv
                /\ kv # None => lk'[p] = "sleep"
          /\ (lk'[p] = "spin" /\ lk[p] # "spin")
                => (lk[p] = "sleep" \/ (lk[p] = "idle" /\ last'.op = "delete_if_equal"))]_vars

\* an attempt raised while another process held the lock, and spin_acquire
\* is at its sleep
C26_SleepsAfterRaise ==
    \E p \in Procs :
        /\ lk[p] = "sleep"
        /\ last.by = p /\ last.result = "raised"
        /\ kv \notin {None, lock_value(p)}

-----------------------------------------------------------------------------
(* C27: the lock of a holder that stopped *)

\* C27: when the holder has stopped while holding the lock, the competitor
\* comes to hold it: the key expires and an acquire or spin_acquire of the
\* competitor sets it.
C27_CrashedHolderGivesWay ==
    (lk[Holder] = "crashed")
        ~> (held[Competitor] = "yes" /\ kv = lock_value(Competitor))

\* the holder has stopped and the competitor holds the lock
C27_CompetitorHoldsAfterCrash ==
    /\ lk[Holder] = "crashed"
    /\ held[Holder] = "no"
    /\ held[Competitor] = "yes"
    /\ kv = lock_value(Competitor)

-----------------------------------------------------------------------------
(* C29: a failed key/value operation *)

\* the last run of operation_func raised and the operation is over
FailedCall ==
    /\ cl.pc = "done"
    /\ cl.op \in KvOps
    /\ cl.reply.kind \in {"moved", "error"}

\* C29: a key/value operation whose broker call failed raises nothing: it
\* returns False (set, sadd, srem, zadd, delete, delete_if_equal), 0 (zcount)
\* or None (the others), it has reconnected, and the reconnect left the slot
\* cache as it was; an operation that did not fail has not reconnected.
C29_FailureIsCaught ==
    /\ cl.result # "raised"
    /\ FailedCall =>
          /\ cl.result = OnFailure(cl.op)
          /\ cl.result \in {"None", "False", "0"}
          /\ cl.reopened
          /\ cl.cluster_slot_cache = cl.cache_before
    /\ (cl.op \in KvOps /\ ~FailedCall) => ~cl.reopened

\* zcount failed in cluster mode with an entry in the slot cache: it
\* returned 0 and reconnected
C29_ZcountFailedWithCache ==
    /\ FailedCall
    /\ cl.op = "zcount"
    /\ cl.is_cluster
    /\ cl.result = "0"
    /\ cl.reopened
    /\ \E sl \in Slots : cl.cluster_slot_cache[sl] # None

-----------------------------------------------------------------------------
(* C30: the attempt that follows a redirect *)

\* the handler is about to run the operation again after a redirect
AfterRedirect ==
    /\ cl.is_cluster
    /\ cl.pc = "attempt"
    /\ cl.attempt > 0
    /\ cl.reply.kind = "moved"
    /\ cl.reply.attempt = cl.attempt - 1

\* C30 as stated: after a redirect, the next attempt of the operation goes to
\* the node the redirect names, whatever slot the redirect names.
C30_NextAttemptFollowsRedirect ==
    AfterRedirect => cl.cached_node = cl.reply.node

\* the redirect named a slot other than the one computed for the key, and
\* the next attempt goes where the redirected one went
C30_RetriedOnStaleNode ==
    /\ AfterRedirect
    /\ cl.reply.slot # KeySlotOf(ClusterKey)
    /\ cl.cluster_slot_cache[cl.reply.slot] = cl.reply.node
    /\ cl.cached_node # cl.reply.node
    /\ cl.cached_node = CachedNode(cl.cache_before)

-----------------------------------------------------------------------------
(* C23: what queue_consumer delivers *)

\* the broker handed entry i of the stream to a consumer of the group
Handed(q, i) == \E k \in 1..Len(sg[q].handed) : sg[q].handed[k] = i

\* C23: the group, created by the first queue_consumer call that finds the
\* stream without it, starts before the first entry: the entries are handed
\* to the group in stream order from the first, none skipped, however many
\* were produced before the group existed; a call returns at most one entry;
\* and every entry produced is in the end handed to a consumer.
C23_EveryEntryDelivered ==
    /\ [](\A q \in StreamNames :
             /\ sg[q].delivered <= Len(sg[q].entries)
             /\ sg[q].handed = [k \in 1..sg[q].delivered |-> k]
             /\ \A k \in 1..Len(sg[q].got) : Handed(q, sg[q].got[k]))
    /\ [][\A q \in StreamNames :
             /\ Len(sg'[q].got) <= Len(sg[q].got) + 1
             /\ sg'[q].delivered <= sg[q].delivered + 1]_vars
    /\ \A q \in StreamNames, i \in 1..MaxEntries :
          (Len(sg[q].entries) >= i) ~> Handed(q, i)

\* the group was created on a stream of two entries, and both were returned
\* in their order
C23_TwoEntriesBeforeGroup ==
    /\ sg["q1"].before = 2
    /\ sg["q1"].got = <<1, 2>>

-----------------------------------------------------------------------------
(* C24: requeue_msg *)

Pending(q, id) == \E c \in Consumers : <<id, c>> \in sg[q].pending

\* the stream holds a copy of the entry, appended after it
Copied(q, id) ==
    \E j \in (id + 1)..Len(sg[q].entries) : sg[q].entries[j] = sg[q].entries[id]

\* C24 as stated: during and after requeue_msg the entry is still pending or
\* a copy of it has been appended, and a requeue that succeeded appended
\* exactly one copy.
C24_RequeueAppendsOneCopy ==
    rq.pc # "idle" =>
        /\ Pending(rq.queue, rq.id) \/ Copied(rq.queue, rq.id)
        /\ rq.result = "ok" => rq.added = 1

\* C24 amended: during and after requeue_msg the entry is still pending or a
\* copy of it has been appended; it is acknowledged only after a copy was
\* appended; a requeue that succeeded appended at least one copy, exactly one
\* outside cluster mode, and at most one for each attempt of the handler in
\* cluster mode.
C24_RequeueNeverLoses ==
    rq.pc # "idle" =>
        /\ Pending(rq.queue, rq.id) \/ Copied(rq.queue, rq.id)
        /\ ~Pending(rq.queue, rq.id) => rq.added >= 1
        /\ rq.added >= 1 => Copied(rq.queue, rq.id)
        /\ rq.added <= rq.attempt + 1
        /\ ~rq.is_cluster => rq.attempt = 0
        /\ rq.result = "ok" => (rq.added >= 1 /\ ~Pending(rq.queue, rq.id))

\* a requeue in cluster mode succeeded at its second attempt and appended two
\* copies
C24_TwoCopiesAfterRetry ==
    /\ rq.pc = "done"
    /\ rq.result = "ok"
    /\ rq.is_cluster
    /\ rq.attempt = 1
    /\ rq.added = 2
    /\ ~Pending(rq.queue, rq.id)

-----------------------------------------------------------------------------
(* C25: get_unacked_iterator *)

PendingIds(q, c) == {pr[1] : pr \in {x \in sg[q].pending : x[2] = c}}

Ascending(S) ==
    CHOOSE s \in [1..Cardinality(S) -> S] :
        \A i, j \in 1..Cardinality(S) : i < j => s[i] < s[j]

\* for each queue of the list with the group, in the order of the list, the
\* ids pending for the consumer in increasing order
ExpectedYield ==
    Flatten([k \in 1..Len(IterQueues) |->
                LET q == IterQueues[k]
                    ids == Ascending(PendingIds(q, it.consumer))
                IN  IF sg[q].group
                    THEN [i \in 1..Len(ids) |-> <<q, ids[i]>>]
                    ELSE <<>>])

\* C25 as stated: when the iterator ends it has yielded, for every queue of
\* the list on which the group exists, each entry pending for the consumer
\* once, in increasing id order; no queue of the list is passed over.
C25_YieldsEveryPendingEntry ==
    [][(it.pc # "done" /\ it'.pc = "done") => it'.yielded = ExpectedYield']_vars

\* the iterator ended in cluster mode after the query on q1 was answered
\* with a redirect: q1 has the group and an entry pending for the consumer,
\* and nothing of q1 was yielded
C25_SkippedRedirectedQueue ==
    /\ it.pc = "done"
    /\ it.is_cluster
    /\ "q1" \in it.redirected
    /\ sg["q1"].group
    /\ PendingIds("q1", it.consumer) # {}
    /\ \A k \in 1..Len(it.yielded) : it.yielded[k][1] # "q1"
====
